---- MODULE Spec2Model ----
(***************************************************************************)
(* A model of the statools calculators: the descriptive-statistics         *)
(* calculator (StatisticsCalculator), the hypothesis-test calculator, the  *)
(* simple normal-distribution calculator, and the Poisson and binomial     *)
(* calculators.  Every React component is one record-valued variable whose *)
(* fields are the component's useState cells; every event handler is one   *)
(* action, which includes the effects React runs after the handler's       *)
(* re-render.                                                              *)
(***************************************************************************)
EXTENDS Integers, Sequences, FiniteSets, TLC

VARIABLES stats, hypo, normal, poisson, binomial, dice, rules, events, probe

vars == <<stats, hypo, normal, poisson, binomial, dice, rules, events, probe>>

\* The number of user events (clicks, edits) a session of the descriptive-
\* statistics calculator is followed for.
MaxEvents == 6

(***************************************************************************)
(* Arithmetic helpers.  JavaScript numbers are modelled exactly where the   *)
(* values are rationals: a number is [k |-> "num", n, d] (n/d in lowest     *)
(* terms, d > 0) or [k |-> "NaN", ...].                                     *)
(***************************************************************************)
Abs(a) == IF a < 0 THEN -a ELSE a

\* Math.floor(a / b) for integers a, b with b # 0.
FloorDiv(a, b) == IF b > 0 THEN a \div b ELSE (-a) \div (-b)

\* Math.ceil(a / b) for integers a, b with b # 0.
CeilDiv(a, b) == -FloorDiv(-a, b)

RECURSIVE Gcd(_, _)
Gcd(a, b) == IF b = 0 THEN a ELSE Gcd(b, a % b)

NaN == [k |-> "NaN", n |-> 0, d |-> 0]

\* The number n/d; 0/0 is NaN as in IEEE arithmetic (d = 0 arises only so).
Rat(n, d) ==
  IF d = 0 THEN NaN
  ELSE LET s == IF d < 0 THEN -1 ELSE 1
           g == Gcd(Abs(n), Abs(d))
       IN [k |-> "num", n |-> (s * n) \div g, d |-> (s * d) \div g]

Num(i) == [k |-> "num", n |-> i, d |-> 1]

IsNaN(a) == a.k = "NaN"

RatAdd(a, b) == IF IsNaN(a) \/ IsNaN(b) THEN NaN ELSE Rat(a.n * b.d + b.n * a.d, a.d * b.d)
RatSub(a, b) == IF IsNaN(a) \/ IsNaN(b) THEN NaN ELSE Rat(a.n * b.d - b.n * a.d, a.d * b.d)
RatMul(a, b) == IF IsNaN(a) \/ IsNaN(b) THEN NaN ELSE Rat(a.n * b.n, a.d * b.d)

\* a < b and a > b as JavaScript compares: false when either side is NaN.
RatLess(a, b) == ~IsNaN(a) /\ ~IsNaN(b) /\ a.n * b.d < b.n * a.d
RatGreater(a, b) == RatLess(b, a)

\* numbers.reduce((a, b) => a + b, 0), summed by halves: s[lo] + ... + s[hi]
RECURSIVE SumBetween(_, _, _)
SumBetween(s, lo, hi) ==
  IF lo > hi THEN 0
  ELSE IF lo = hi THEN s[lo]
  ELSE SumBetween(s, lo, (lo + hi) \div 2) + SumBetween(s, (lo + hi) \div 2 + 1, hi)

SumSeq(s) == SumBetween(s, 1, Len(s))

SumSquares(s) == SumBetween([i \in 1..Len(s) |-> s[i] * s[i]], 1, Len(s))

\* [...numbers].sort((a, b) => a - b): the element at position k is the one
\* that k - 1 elements precede (the smaller ones, and the equal ones before it).
SortByRank(s, ranks) == [k \in 1..Len(s) |-> s[CHOOSE i \in 1..Len(s) : ranks[i] = k - 1]]

SortAsc(s) ==
  SortByRank(s, [i \in 1..Len(s) |->
                   Cardinality({j \in 1..Len(s) : s[j] < s[i] \/ (s[j] = s[i] /\ j < i)})])

SeqMin(s) == SortAsc(s)[1]
SeqMax(s) == SortAsc(s)[Len(s)]

Range(s) == {s[i] : i \in 1..Len(s)}

\* The elements of a finite set of integers in ascending order.
RECURSIVE SortedSeqOf(_)
SortedSeqOf(S) ==
  IF S = {} THEN <<>>
  ELSE LET m == CHOOSE x \in S : \A y \in S : x <= y
       IN <<m>> \o SortedSeqOf(S \ {m})

(***************************************************************************)
(* Number.prototype.toFixed: the decimal string with the given count of     *)
(* fraction digits, ties rounded away from zero.  A string of digits is     *)
(* modelled by the integer it spells with the point removed (toFixed(4) of  *)
(* 2.5 is "2.5000", modelled [s |-> "num", v |-> 25000]); NaN gives "NaN".  *)
(***************************************************************************)
RECURSIVE ScaledFloor(_, _, _, _)
\* Math.floor((q + r / d) * 10^k) for integers q >= 0, 0 <= r < d
ScaledFloor(q, r, d, k) ==
  IF k = 0 THEN q ELSE ScaledFloor(10 * q + (10 * r) \div d, (10 * r) % d, d, k - 1)

RECURSIVE ScaledRemainder(_, _, _)
\* The numerator of the fraction part of (r / d) * 10^k over d, 0 <= r < d
ScaledRemainder(r, d, k) == IF k = 0 THEN r ELSE ScaledRemainder((10 * r) % d, d, k - 1)

ToFixed(a, digits) ==
  IF IsNaN(a) THEN [s |-> "NaN", v |-> 0]
  ELSE LET m == Abs(a.n)
           v == ScaledFloor(m \div a.d, m % a.d, a.d, digits)
                + (IF 2 * ScaledRemainder(m % a.d, a.d, digits) >= a.d THEN 1 ELSE 0)
       IN [s |-> "num", v |-> IF a.n < 0 THEN -v ELSE v]

\* parseFloat of a string toFixed(4) produced.
ParseFixed4(t) == IF t.s = "NaN" THEN NaN ELSE Rat(t.v, 10000)

(***************************************************************************)
(* The descriptive-statistics calculator (StatisticsCalculator).            *)
(*                                                                         *)
(* The input text is the sequence of its whitespace-separated tokens; a     *)
(* token is a number (Number(token) is a number) or not (Number(token) is   *)
(* NaN).  The empty sequence is the empty or whitespace-only text.          *)
(***************************************************************************)
MAX_INPUT_COUNT == 100
DEFAULT_BIN_COUNT == 5
MIN_BINS == 3
MAX_BINS == 15

HISTOGRAM == "histogram"
BAR == "bar"
BOXPLOT == "boxplot"
CHART_TYPES == {HISTOGRAM, BAR, BOXPLOT}

Tok(v) == [num |-> TRUE, v |-> v]
BadTok == [num |-> FALSE, v |-> 0]

TextOf(values) == [i \in 1..Len(values) |-> Tok(values[i])]

\* SAMPLE_DATASETS[*].data
SAMPLE_DATASETS ==
  << TextOf(<<68, 72, 75, 70, 74, 71, 69, 73, 76, 72, 70, 74, 71, 73, 75, 69, 72, 74, 71, 73>>),
     TextOf(<<5, 5, 5, 4, 4, 6, 6, 3, 3, 7, 7, 2, 2, 8, 8, 1, 1, 9, 9, 5, 5, 5>>),
     TextOf(<<1, 1, 2, 2, 2, 3, 3, 3, 3, 4, 4, 4, 5, 5, 6, 6, 7, 8, 9, 15, 20, 25, 30>>) >>

\* input.trim().split(/\s+/).map(Number).filter(n => !isNaN(n)).  The empty
\* text splits into the single token "", and Number("") is 0.
parseInputNumbers(input) ==
  IF input = <<>> THEN <<0>>
  ELSE LET kept == SelectSeq(input, LAMBDA t : t.num)
       IN [i \in 1..Len(kept) |-> kept[i].v]

\* calculatePercentile without the interpolation: the value at the lower rank
calculatePercentileLower(sortedNumbers, p) ==
  Num(sortedNumbers[(p.n * (Len(sortedNumbers) - 1)) \div p.d + 1])

\* calculatePercentile(sortedNumbers, percentile), percentile = p.n / p.d.
calculatePercentile(sortedNumbers, p) ==
  LET len    == Len(sortedNumbers)
      lower  == (p.n * (len - 1)) \div p.d
      upper  == lower + 1
      weight == Rat((p.n * (len - 1)) % p.d, p.d)
  IN IF upper >= len THEN Num(sortedNumbers[lower + 1])
     ELSE RatAdd(RatMul(Num(sortedNumbers[lower + 1]), RatSub(Num(1), weight)),
                 RatMul(Num(sortedNumbers[upper + 1]), weight))

\* Math.sqrt of a rational, kept exact: the real number sqrt(n/d).
Sqrt(a) == IF IsNaN(a) THEN NaN ELSE [k |-> "sqrt", n |-> a.n, d |-> a.d]

\* The body of calculateAllStatistics, given sorted = the sorted copy.
StatisticsOf(numbers, sorted) ==
  LET n      == Len(numbers)
      min    == sorted[1]
      max    == sorted[n]
      sum    == SumSeq(numbers)
      mean   == Rat(sum, n)
      median == IF n % 2 = 0
                THEN Rat(sorted[n \div 2] + sorted[n \div 2 + 1], 2)
                ELSE Num(sorted[n \div 2 + 1])
      \* sum((b - mean)^2) / (n - 1); 0 / 0 for a single value
      variance == Rat(n * SumSquares(numbers) - sum * sum, n * (n - 1))
      q1     == calculatePercentile(sorted, [n |-> 1, d |-> 4])
      q3     == calculatePercentile(sorted, [n |-> 3, d |-> 4])
      iqr    == RatSub(q3, q1)
      fence  == RatMul(Rat(3, 2), iqr)
  IN [min |-> Num(min), max |-> Num(max), range |-> Num(max - min), mean |-> mean,
      median |-> median, stdDev |-> Sqrt(variance), variance |-> variance,
      q1 |-> q1, q3 |-> q3, iqr |-> iqr,
      outlierMin |-> RatSub(q1, fence), outlierMax |-> RatAdd(q3, fence)]

calculateAllStatistics(numbers) == StatisticsOf(numbers, SortAsc(numbers))

\* stats[key].toFixed(4) for every key.  The digits of a square root are not
\* computed: its string is identified by the exact value it was printed from.
formatResult(st) ==
  [key \in DOMAIN st |->
     IF st[key].k = "sqrt" THEN [s |-> "sqrt", n |-> st[key].n, d |-> st[key].d]
     ELSE ToFixed(st[key], 4)]

\* useState({}): no key is defined.
EmptyResult == [empty |-> TRUE]

\* result.mean !== undefined
HasMean(result) == "mean" \in DOMAIN result

\* useState(null)
NullChart == [kind |-> "null"]

\* The bin generateHistogram counts num in (0-based), or -1 when it counts
\* num in no bin.  Math.floor((num - minBoundary) / classWidth) is
\* +Infinity, NaN or -Infinity when classWidth is 0.
BinOf(c, num) ==
  IF c.classWidth = 0
  THEN IF num - c.minBoundary > 0 THEN c.binCount - 1 ELSE -1
  ELSE LET binIndex == FloorDiv(num - c.minBoundary, c.classWidth)
       IN IF binIndex >= 0 /\ binIndex < c.binCount THEN binIndex
          ELSE IF binIndex >= c.binCount THEN c.binCount - 1
          ELSE -1

\* bins after numbers.forEach(...)
HistogramBins(c, numbers) ==
  [i \in 1..c.binCount |->
     Cardinality({j \in 1..Len(numbers) : BinOf(c, numbers[j]) = i - 1})]

RECURSIVE PrefixSum(_, _)
PrefixSum(s, i) == IF i = 0 THEN 0 ELSE s[i] + PrefixSum(s, i - 1)

\* generateHistogram: the frequency table and the chart it sets.  The
\* cumulative percentage is the exact running sum of the relative ones.
HistogramOf(c, bins, totalCount, outlierMin, outlierMax) ==
  LET
      lowerBound(i) == c.minBoundary + (i - 1) * c.classWidth
      upperBound(i) == lowerBound(i) + c.classWidth
      midpoint(i)   == Rat(lowerBound(i) + upperBound(i), 2)
      isOutlier(i)  == RatLess(midpoint(i), outlierMin) \/ RatGreater(midpoint(i), outlierMax)
  IN [frequencyTable |->
        [i \in 1..c.binCount |->
           [class          |-> <<lowerBound(i), upperBound(i)>>,
            frequency      |-> bins[i],
            relativeFreq   |-> ToFixed(Rat(bins[i] * 100, totalCount), 2),
            cumulativeFreq |-> ToFixed(Rat(PrefixSum(bins, i) * 100, totalCount), 2),
            midpoint       |-> ToFixed(midpoint(i), 2)]],
      chartData |->
        [kind    |-> HISTOGRAM,
         classes |-> [i \in 1..c.binCount |-> <<lowerBound(i), upperBound(i)>>],
         data    |-> bins,
         outlier |-> [i \in 1..c.binCount |-> isOutlier(i)]]]

generateHistogram(c, numbers, outlierMin, outlierMax) ==
  HistogramOf(c, HistogramBins(c, numbers), Len(numbers), outlierMin, outlierMax)

\* The bar chart's colouring test: val < outlierMin || val > outlierMax.
BarIsOutlier(val, outlierMin, outlierMax) ==
  RatLess(Num(val), outlierMin) \/ RatGreater(Num(val), outlierMax)

\* generateBarChart: one bar per distinct value, in ascending order.
BarChartOf(c, numbers, uniqueValues, outlierMin, outlierMax) ==
  LET frequency(v) == Cardinality({j \in 1..Len(numbers) : numbers[j] = v})
  IN [frequencyTable |-> c.frequencyTable,
      chartData |->
        [kind    |-> BAR,
         labels  |-> uniqueValues,
         data    |-> [i \in 1..Len(uniqueValues) |-> frequency(uniqueValues[i])],
         outlier |-> [i \in 1..Len(uniqueValues) |->
                        BarIsOutlier(uniqueValues[i], outlierMin, outlierMax)]]]

generateBarChart(c, numbers, outlierMin, outlierMax) ==
  BarChartOf(c, numbers, SortedSeqOf(Range(numbers)), outlierMin, outlierMax)

\* A box plot that also flags a value lying on a bound.
BoxIsOutlierInclusive(n, outlierMin, outlierMax) ==
  ~RatGreater(Num(n), outlierMin) \/ ~RatLess(Num(n), outlierMax)

\* The box plot's outlier test: n < outlierMin || n > outlierMax.
BoxIsOutlier(n, outlierMin, outlierMax) ==
  RatLess(Num(n), outlierMin) \/ RatGreater(Num(n), outlierMax)

\* generateBoxPlot: the box from the numbers' own statistics, the whiskers
\* and the outliers from the bounds handed in.
BoxPlotOf(c, st, outliers, nonOutliers) ==
  LET whiskerMin  == IF Len(nonOutliers) > 0 THEN Num(SeqMin(nonOutliers)) ELSE st.min
      whiskerMax  == IF Len(nonOutliers) > 0 THEN Num(SeqMax(nonOutliers)) ELSE st.max
      shown       == c.showOutliers /\ Len(outliers) > 0
  IN [frequencyTable |-> c.frequencyTable,
      chartData |->
        [kind |-> BOXPLOT,
         whiskerMin |-> whiskerMin, whiskerMax |-> whiskerMax,
         q1 |-> st.q1, q3 |-> st.q3, median |-> st.median, iqr |-> st.iqr,
         hasOutlierDataset |-> shown,
         outliers |-> IF shown THEN outliers ELSE <<>>]]

generateBoxPlot(c, numbers, outlierMin, outlierMax) ==
  BoxPlotOf(c, calculateAllStatistics(numbers),
            SelectSeq(numbers, LAMBDA n : BoxIsOutlier(n, outlierMin, outlierMax)),
            SelectSeq(numbers, LAMBDA n : ~RatLess(Num(n), outlierMin)
                                          /\ ~RatGreater(Num(n), outlierMax)))

\* generateChartData: the generator of the chart type of this render.
generateChartData(c, numbers, outlierMin, outlierMax) ==
  IF c.chartType = HISTOGRAM THEN generateHistogram(c, numbers, outlierMin, outlierMax)
  ELSE IF c.chartType = BAR THEN generateBarChart(c, numbers, outlierMin, outlierMax)
  ELSE generateBoxPlot(c, numbers, outlierMin, outlierMax)

\* StatisticsCalculator's state after its first render (the useState calls).
\* alert is the message of the window.alert the last handler raised, "" if
\* it raised none.
StatsInit ==
  [input |-> <<>>, result |-> EmptyResult, chartType |-> HISTOGRAM,
   binCount |-> DEFAULT_BIN_COUNT, classWidth |-> 10, minBoundary |-> 0,
   chartData |-> NullChart, showChart |-> FALSE, frequencyTable |-> <<>>,
   showOutliers |-> TRUE, alert |-> ""]

\* setFrequencyTable and setChartData with what a generator built.
WithChart(c, g) == [c EXCEPT !.chartData = g.chartData, !.frequencyTable = g.frequencyTable]

\* The body of the chart effect, run in the render whose state is c.
ChartEffect(c) ==
  IF HasMean(c.result)
  THEN LET numbers == parseInputNumbers(c.input)
       IN IF Len(numbers) > 0
          THEN WithChart(c, generateChartData(c, numbers, ParseFixed4(c.result.outlierMin),
                                              ParseFixed4(c.result.outlierMax)))
          ELSE c
  ELSE c

\* The state once React has re-rendered after a handler: the effect runs when
\* one of its dependencies [binCount, classWidth, minBoundary, chartType]
\* differs from the previous render's.
AfterRender(old, new) ==
  IF <<new.binCount, new.classWidth, new.minBoundary, new.chartType>>
       # <<old.binCount, old.classWidth, old.minBoundary, old.chartType>>
  THEN ChartEffect(new)
  ELSE new

\* The texts typed into the textarea.
InputTexts ==
  { <<>>, <<BadTok>>, <<Tok(5), BadTok, Tok(12)>>, TextOf(<<1, 2, 3, 4, 7>>) }

\* The values typed into the two number fields of the histogram controls: a
\* number, or a text parseFloat turns into NaN.
BoundaryEntries == {BadTok, Tok(10)}
ClassWidthEntries == {BadTok, Tok(2), Tok(-2)}

\* The positions the class-count slider is moved to.
BinChoices == {MIN_BINS, DEFAULT_BIN_COUNT}

\* The example data sets clicked.
DatasetChoices == {3}

\* One more user event of the session has been handled.
Handled == events < MaxEvents /\ events' = events + 1

\* onChange of the textarea: setInput(e.target.value)
setInput ==
  /\ \E text \in InputTexts : stats' = [stats EXCEPT !.input = text, !.alert = ""]
  /\ Handled
  /\ UNCHANGED <<hypo, normal, poisson, binomial, dice, rules, probe>>

\* onClick of an example data set: setInput(dataset.data)
selectDataset ==
  /\ \E i \in DatasetChoices :
       stats' = [stats EXCEPT !.input = SAMPLE_DATASETS[i], !.alert = ""]
  /\ Handled
  /\ UNCHANGED <<hypo, normal, poisson, binomial, dice, rules, probe>>

\* calculateStatistics past its validation: st = calculateAllStatistics(numbers).
AcceptedSample(c, numbers, st) ==
  LET suggestedMin   == FloorDiv(st.min.n, 10) * 10
      suggestedWidth == CeilDiv(st.range.n, c.binCount)
  IN AfterRender(c,
       [WithChart(c, generateChartData(c, numbers, st.outlierMin, st.outlierMax))
          EXCEPT !.result = formatResult(st),
                 !.minBoundary = suggestedMin,
                 !.classWidth = suggestedWidth,
                 !.showChart = TRUE,
                 !.alert = ""])

\* What calculateStatistics leaves when it runs in the render whose state is c
\* (its setters, then the re-render and its effect).
\* CalculateStatisticsResult without the check against MAX_INPUT_COUNT
CalculateStatisticsResultUncapped(c) ==
  LET numbers == parseInputNumbers(c.input)
  IN IF Len(numbers) = 0
     THEN [c EXCEPT !.alert = "Please enter valid numbers separated by spaces."]
     ELSE AcceptedSample(c, numbers, calculateAllStatistics(numbers))

CalculateStatisticsResult(c) ==
  LET numbers == parseInputNumbers(c.input)
  IN IF Len(numbers) = 0
     THEN [c EXCEPT !.alert = "Please enter valid numbers separated by spaces."]
     ELSE IF Len(numbers) > MAX_INPUT_COUNT
     THEN [c EXCEPT !.alert = "Please enter no more than 100 numbers."]
     ELSE AcceptedSample(c, numbers, calculateAllStatistics(numbers))

\* onClick of "Calculate Statistics"
calculateStatistics ==
  /\ stats' = CalculateStatisticsResult(stats)
  /\ Handled
  /\ UNCHANGED <<hypo, normal, poisson, binomial, dice, rules, probe>>

\* onChange of the chart-type select: setChartType(e.target.value)
setChartType ==
  /\ \E t \in CHART_TYPES :
       stats' = AfterRender(stats, [stats EXCEPT !.chartType = t, !.alert = ""])
  /\ Handled
  /\ UNCHANGED <<hypo, normal, poisson, binomial, dice, rules, probe>>

\* The histogram controls are rendered only in histogram mode with a result.
HistogramControlsShown == stats.chartType = HISTOGRAM /\ HasMean(stats.result)

\* onChange of the class-count slider: setBinCount(parseInt(e.target.value))
setBinCount ==
  /\ HistogramControlsShown
  /\ \E b \in BinChoices :
       stats' = AfterRender(stats, [stats EXCEPT !.binCount = b, !.alert = ""])
  /\ Handled
  /\ UNCHANGED <<hypo, normal, poisson, binomial, dice, rules, probe>>

\* onChange of the lower-boundary field: setMinBoundary(parseFloat(v) || 0)
setMinBoundary ==
  /\ HistogramControlsShown
  /\ \E e \in BoundaryEntries :
       LET v == IF e.num /\ e.v # 0 THEN e.v ELSE 0
       IN stats' = AfterRender(stats, [stats EXCEPT !.minBoundary = v, !.alert = ""])
  /\ Handled
  /\ UNCHANGED <<hypo, normal, poisson, binomial, dice, rules, probe>>

\* onChange of the class-width field: setClassWidth(parseFloat(v) || 1)
setClassWidth ==
  /\ HistogramControlsShown
  /\ \E e \in ClassWidthEntries :
       LET v == IF e.num /\ e.v # 0 THEN e.v ELSE 1
       IN stats' = AfterRender(stats, [stats EXCEPT !.classWidth = v, !.alert = ""])
  /\ Handled
  /\ UNCHANGED <<hypo, normal, poisson, binomial, dice, rules, probe>>

\* onChange of the "Show Outliers" checkbox, rendered in box-plot mode:
\* setShowOutliers(e.target.checked); showOutliers is no effect dependency.
setShowOutliers ==
  /\ stats.chartType = BOXPLOT
  /\ \E b \in BOOLEAN : stats' = [stats EXCEPT !.showOutliers = b, !.alert = ""]
  /\ Handled
  /\ UNCHANGED <<hypo, normal, poisson, binomial, dice, rules, probe>>

NextStatistics ==
  \/ setInput
  \/ selectDataset
  \/ calculateStatistics
  \/ setChartType
  \/ setBinCount
  \/ setMinBoundary
  \/ setClassWidth
  \/ setShowOutliers

(***************************************************************************)
(* The Poisson calculator (PoissonCalculator).  lambda is held in tenths,   *)
(* the step of its slider: lambda = 5 is 50.                                *)
(***************************************************************************)
\* POISSON_EXAMPLES[*].lambda, in tenths
POISSON_EXAMPLES == <<30, 20, 40, 200, 15, 5>>

RECURSIVE CeilFrom(_, _)
\* The least integer m >= from with m >= lambda + 4 * sqrt(lambda), that is
\* with (10 m - lambda10)^2 >= 160 * lambda10 and 10 m >= lambda10.
CeilFrom(lambda10, from) ==
  IF 10 * from >= lambda10 /\ (10 * from - lambda10) * (10 * from - lambda10) >= 160 * lambda10
  THEN from
  ELSE CeilFrom(lambda10, from + 1)

\* maxX: Math.max(Math.ceil(lambda + 4 * Math.sqrt(lambda)), 20)
maxX(lambda10) ==
  LET c == CeilFrom(lambda10, 0) IN IF c > 20 THEN c ELSE 20

PoissonInit ==
  [lambda |-> 50, x |-> 5, probabilityType |-> "exact", showNormalApprox |-> FALSE]

\* The positions the lambda slider (0.1 to 30, step 0.1) is moved to.
LambdaChoices == {1, 50, 300}

PROBABILITY_TYPES == {"exact", "atMost", "atLeast"}

\* onChange of the lambda slider: setLambda(parseFloat(e.target.value))
setLambda ==
  /\ \E l \in LambdaChoices : poisson' = [poisson EXCEPT !.lambda = l]
  /\ UNCHANGED <<stats, hypo, normal, binomial, dice, rules, events, probe>>

\* onChange of the x slider, whose range is 0 to maxX: setX(parseInt(e.target.value))
setPoissonX ==
  /\ \E v \in 0..maxX(poisson.lambda) : poisson' = [poisson EXCEPT !.x = v]
  /\ UNCHANGED <<stats, hypo, normal, binomial, dice, rules, events, probe>>

\* selectExample: setLambda(example.lambda); setX(Math.floor(example.lambda))
selectExample ==
  /\ \E i \in 1..Len(POISSON_EXAMPLES) :
       poisson' = [poisson EXCEPT !.lambda = POISSON_EXAMPLES[i],
                                  !.x = POISSON_EXAMPLES[i] \div 10]
  /\ UNCHANGED <<stats, hypo, normal, binomial, dice, rules, events, probe>>

\* onChange of the probability-type radios
setPoissonProbabilityType ==
  /\ \E t \in PROBABILITY_TYPES : poisson' = [poisson EXCEPT !.probabilityType = t]
  /\ UNCHANGED <<stats, hypo, normal, binomial, dice, rules, events, probe>>

\* onChange of the normal-approximation checkbox
setShowNormalApprox ==
  /\ \E b \in BOOLEAN : poisson' = [poisson EXCEPT !.showNormalApprox = b]
  /\ UNCHANGED <<stats, hypo, normal, binomial, dice, rules, events, probe>>

NextPoisson ==
  \/ setLambda
  \/ setPoissonX
  \/ selectExample
  \/ setPoissonProbabilityType
  \/ setShowNormalApprox

(***************************************************************************)
(* The binomial calculator (BinomialCalculator).  p is held in hundredths,  *)
(* the step of its slider.                                                  *)
(***************************************************************************)
\* PRESET_SCENARIOS
PRESET_SCENARIOS ==
  << [n |-> 10, p |-> 50, x |-> 5], [n |-> 20, p |-> 70, x |-> 14], [n |-> 30, p |-> 25, x |-> 8] >>

\* PARAMETER_RANGES
PARAMETER_RANGES == [n |-> [min |-> 1, max |-> 50], p |-> [min |-> 0, max |-> 100]]

BinomialInit == [n |-> 10, p |-> 50, x |-> 5, probabilityType |-> "exact"]

\* The positions the n slider and the p slider are moved to.
NChoices == {PARAMETER_RANGES.n.min, 2, 10, 30, PARAMETER_RANGES.n.max}
PChoices == {PARAMETER_RANGES.p.min, 50, PARAMETER_RANGES.p.max}

\* updateParameter without the constraint on x.
updateParameterUnconstrained(b, param, value) ==
  IF param = "n" THEN [b EXCEPT !.n = value]
  ELSE IF param = "p" THEN [b EXCEPT !.p = value]
  ELSE [b EXCEPT !.x = value]

\* updateParameter(param, value), run in the render whose state is b.
updateParameter(b, param, value) ==
  IF param = "n" THEN [b EXCEPT !.n = value, !.x = IF b.x > value THEN value ELSE b.x]
  ELSE IF param = "p" THEN [b EXCEPT !.p = value]
  ELSE [b EXCEPT !.x = value]

\* onChange of the n slider
setN ==
  /\ \E v \in NChoices : binomial' = updateParameter(binomial, "n", v)
  /\ UNCHANGED <<stats, hypo, normal, poisson, dice, rules, events, probe>>

\* onChange of the p slider
setP ==
  /\ \E v \in PChoices : binomial' = updateParameter(binomial, "p", v)
  /\ UNCHANGED <<stats, hypo, normal, poisson, dice, rules, events, probe>>

\* onChange of the x slider, whose range is 0 to n
setBinomialX ==
  /\ \E v \in 0..binomial.n : binomial' = updateParameter(binomial, "x", v)
  /\ UNCHANGED <<stats, hypo, normal, poisson, dice, rules, events, probe>>

\* applyPreset: setN(preset.n); setP(preset.p); setX(preset.x)
applyPreset ==
  /\ \E i \in 1..Len(PRESET_SCENARIOS) :
       binomial' = [binomial EXCEPT !.n = PRESET_SCENARIOS[i].n,
                                    !.p = PRESET_SCENARIOS[i].p,
                                    !.x = PRESET_SCENARIOS[i].x]
  /\ UNCHANGED <<stats, hypo, normal, poisson, dice, rules, events, probe>>

\* onChange of the probability-type radios
setBinomialProbabilityType ==
  /\ \E t \in PROBABILITY_TYPES : binomial' = [binomial EXCEPT !.probabilityType = t]
  /\ UNCHANGED <<stats, hypo, normal, poisson, dice, rules, events, probe>>

NextBinomial ==
  \/ setN
  \/ setP
  \/ setBinomialX
  \/ applyPreset
  \/ setBinomialProbabilityType

(***************************************************************************)
(* The simple normal-distribution calculator (the NormalDistributionCalcu-  *)
(* lator with a Calculate button).  A probability is kept as the expression *)
(* over jStat.normal.cdf that calculate evaluates.                          *)
(***************************************************************************)
\* The JavaScript values null and undefined, where a number can also stand.
Null == [k |-> "null", n |-> 0, d |-> 0]
Undefined == [k |-> "undefined", n |-> 0, d |-> 0]

\* a / b for numbers a, b with b # 0.
RatDiv(a, b) == IF IsNaN(a) \/ IsNaN(b) THEN NaN ELSE Rat(a.n * b.d, a.d * b.n)

RatAbs(a) == IF IsNaN(a) THEN NaN ELSE Rat(Abs(a.n), a.d)

\* Math.max(a, b) and Math.min(a, b)
RatMax(a, b) == IF IsNaN(a) \/ IsNaN(b) THEN NaN ELSE IF RatLess(a, b) THEN b ELSE a
RatMin(a, b) == IF IsNaN(a) \/ IsNaN(b) THEN NaN ELSE IF RatLess(a, b) THEN a ELSE b

\* The text of a number input: EmptyText is the empty string, NumText(n, d)
\* the decimal numeral of n/d.
EmptyText == [num |-> FALSE, n |-> 0, d |-> 1]
NumText(n, d) == [num |-> TRUE, n |-> n, d |-> d]

\* parseFloat of the text of a number input
parseFloat(text) == IF text.num THEN Rat(text.n, text.d) ELSE NaN

NormalInit ==
  [mean |-> Num(0), sd |-> Num(1), inputType |-> "x", calcType |-> "left",
   value1 |-> EmptyText, value2 |-> EmptyText,
   result |-> Null, z1 |-> Null, z2 |-> Null, error |-> "", mounted |-> TRUE]

\* The texts typed into the mean, standard-deviation and value fields.
MeanEntries == {EmptyText, NumText(0, 1), NumText(1, 1)}
SdEntries == {EmptyText, NumText(0, 1), NumText(2, 1)}
Value1Entries == {EmptyText, NumText(1, 1)}
Value2Entries == {EmptyText, NumText(3, 1)}

INPUT_TYPES == {"x", "z"}
CALC_TYPES == {"left", "right", "between", "around"}

\* toZ = (x) => (x - mean) / sd
toZ(c, x) == RatDiv(RatSub(x, c.mean), c.sd)

\* cdf(a), 1 - cdf(a) and cdf(a) - cdf(b) with cdf = jStat.normal.cdf(z, 0, 1)
CdfOf(a) == [op |-> "cdf", a |-> a, b |-> a]
OneMinusCdfOf(a) == [op |-> "1-cdf", a |-> a, b |-> a]
CdfDifference(a, b) == [op |-> "cdf-cdf", a |-> a, b |-> b]

NormalFailure(c, message) == [c EXCEPT !.error = message, !.result = Null]

NormalSuccess(c, prob, zVal1, zVal2) ==
  [c EXCEPT !.result = prob, !.z1 = zVal1, !.z2 = zVal2, !.error = ""]

\* calculate, run in the render whose state is c, with v1 and v2 the parsed
\* value fields and zVal1 the first z value (used once the checks passed).
NormalCalculateResult(c, v1, v2, zVal1) ==
  IF IsNaN(c.mean) \/ IsNaN(c.sd) \/ ~RatGreater(c.sd, Num(0))
  THEN NormalFailure(c, "Enter a valid mean and standard deviation")
  ELSE IF IsNaN(v1) THEN NormalFailure(c, "Enter a valid value")
  ELSE IF c.calcType = "left" THEN NormalSuccess(c, CdfOf(zVal1), zVal1, Undefined)
  ELSE IF c.calcType = "right" THEN NormalSuccess(c, OneMinusCdfOf(zVal1), zVal1, Undefined)
  ELSE IF c.calcType = "between"
  THEN IF IsNaN(v2) THEN NormalFailure(c, "Enter a valid second value")
       ELSE LET zVal2 == IF c.inputType = "z" THEN v2 ELSE toZ(c, v2)
            IN NormalSuccess(c, CdfDifference(RatMax(zVal1, zVal2), RatMin(zVal1, zVal2)),
                             zVal1, zVal2)
  ELSE IF IsNaN(v2) THEN NormalFailure(c, "Enter a valid margin")
       ELSE LET margin == IF c.inputType = "z" THEN RatAbs(v2) ELSE RatAbs(RatDiv(v2, c.sd))
            IN NormalSuccess(c, CdfDifference(RatAdd(zVal1, margin), RatSub(zVal1, margin)),
                             zVal1, margin)

\* The render of the results panel throws a TypeError: it calls toFixed on
\* z2 when z2 !== null, and z2 is undefined.
RenderThrows(c) == c.result # Null /\ c.z2 # Null /\ c.z2 = Undefined

\* React unmounts a component whose render throws.
NormalRendered(c) == IF RenderThrows(c) THEN [c EXCEPT !.mounted = FALSE] ELSE c

\* onClick of the Calculate button
normalCalculate ==
  /\ normal.mounted
  /\ normal' = NormalRendered(
       NormalCalculateResult(normal, parseFloat(normal.value1), parseFloat(normal.value2),
         IF normal.inputType = "z" THEN parseFloat(normal.value1)
         ELSE toZ(normal, parseFloat(normal.value1))))
  /\ UNCHANGED <<stats, hypo, poisson, binomial, dice, rules, events, probe>>

\* onChange of the mean field: setMean(parseFloat(e.target.value))
setMean ==
  /\ normal.mounted
  /\ \E t \in MeanEntries : normal' = NormalRendered([normal EXCEPT !.mean = parseFloat(t)])
  /\ UNCHANGED <<stats, hypo, poisson, binomial, dice, rules, events, probe>>

\* onChange of the standard-deviation field: setSd(parseFloat(e.target.value))
setSd ==
  /\ normal.mounted
  /\ \E t \in SdEntries : normal' = NormalRendered([normal EXCEPT !.sd = parseFloat(t)])
  /\ UNCHANGED <<stats, hypo, poisson, binomial, dice, rules, events, probe>>

\* onChange of the input-type select
setInputType ==
  /\ normal.mounted
  /\ \E t \in INPUT_TYPES : normal' = NormalRendered([normal EXCEPT !.inputType = t])
  /\ UNCHANGED <<stats, hypo, poisson, binomial, dice, rules, events, probe>>

\* onChange of the calculation select
setCalcType ==
  /\ normal.mounted
  /\ \E t \in CALC_TYPES : normal' = NormalRendered([normal EXCEPT !.calcType = t])
  /\ UNCHANGED <<stats, hypo, poisson, binomial, dice, rules, events, probe>>

\* onChange of the value field
setValue1 ==
  /\ normal.mounted
  /\ \E t \in Value1Entries : normal' = NormalRendered([normal EXCEPT !.value1 = t])
  /\ UNCHANGED <<stats, hypo, poisson, binomial, dice, rules, events, probe>>

\* onChange of the second value field, rendered for 'between' and 'around'
setValue2 ==
  /\ normal.mounted
  /\ normal.calcType \in {"between", "around"}
  /\ \E t \in Value2Entries : normal' = NormalRendered([normal EXCEPT !.value2 = t])
  /\ UNCHANGED <<stats, hypo, poisson, binomial, dice, rules, events, probe>>

NextNormal ==
  \/ normalCalculate
  \/ setMean
  \/ setSd
  \/ setInputType
  \/ setCalcType
  \/ setValue1
  \/ setValue2

(***************************************************************************)
(* The hypothesis-test calculator (HypothesisTestCalculator).               *)
(*                                                                         *)
(* Statistics and critical values are exact rationals; a value of           *)
(* Math.sqrt that is not rational is carried to four decimals.              *)
(* Probabilities (the significance level, the values of a cdf, p-values)    *)
(* are decimal floating-point numbers m * 10^e, so that a significance      *)
(* level far below the spacing of the doubles next to 1 can be written.     *)
(***************************************************************************)
RatNeg(a) == IF IsNaN(a) THEN NaN ELSE Rat(-a.n, a.d)

RECURSIVE TenTo(_)
TenTo(k) == IF k <= 0 THEN 1 ELSE 10 * TenTo(k - 1)

RECURSIVE ISqrtBetween(_, _, _)
\* The integer r with lo <= r < hi and r * r <= x < (r + 1) * (r + 1).
ISqrtBetween(x, lo, hi) ==
  IF hi - lo <= 1 THEN lo
  ELSE LET mid == (lo + hi) \div 2
       IN IF mid * mid <= x THEN ISqrtBetween(x, mid, hi) ELSE ISqrtBetween(x, lo, mid)

\* Math.floor(Math.sqrt(x)) for an integer 0 <= x < 2^31
ISqrt(x) == ISqrtBetween(x, 0, 46341)

\* The count of decimals Math.sqrt(a) is carried to when it is irrational.
SqrtDecimals(a) ==
  IF a.n \div a.d < 21 THEN 4 ELSE IF a.n \div a.d < 2147 THEN 3 ELSE 2

\* Math.sqrt(a): NaN for a negative number
JsSqrt(a) ==
  IF IsNaN(a) \/ a.n < 0 THEN NaN
  ELSE IF ISqrt(a.n) * ISqrt(a.n) = a.n /\ ISqrt(a.d) * ISqrt(a.d) = a.d
  THEN Rat(ISqrt(a.n), ISqrt(a.d))
  ELSE Rat(ISqrt(ScaledFloor(a.n \div a.d, a.n % a.d, a.d, 2 * SqrtDecimals(a))),
           TenTo(SqrtDecimals(a)))

\* The decimal floating-point number m * 10^e, without trailing zeros in m.
RECURSIVE Sci(_, _)
Sci(m, e) ==
  IF m = 0 THEN [k |-> "num", m |-> 0, e |-> 0]
  ELSE IF m % 10 = 0 THEN Sci(m \div 10, e + 1)
  ELSE [k |-> "num", m |-> m, e |-> e]

SciNaN == [k |-> "NaN", m |-> 0, e |-> 0]

\* a < b for positive a and b
SciLessPositive(a, b) ==
  IF a.e >= b.e
  THEN a.e - b.e <= 9 /\ a.m < CeilDiv(b.m, TenTo(a.e - b.e))
  ELSE b.e - a.e > 9 \/ FloorDiv(a.m, TenTo(b.e - a.e)) < b.m

\* a < b as JavaScript compares: false when either side is NaN
SciLess(a, b) ==
  /\ a.k = "num" /\ b.k = "num"
  /\ IF a.m <= 0 /\ b.m <= 0
     THEN IF a.m = 0 \/ b.m = 0 THEN a.m < b.m
          ELSE SciLessPositive([b EXCEPT !.m = -b.m], [a EXCEPT !.m = -a.m])
     ELSE IF a.m <= 0 \/ b.m <= 0 THEN a.m <= 0
     ELSE SciLessPositive(a, b)

\* a / 2
SciHalf(a) == IF a.k = "NaN" THEN SciNaN ELSE Sci(5 * a.m, a.e - 1)

\* The doubles next to 1 are 2^-53 apart: 1 - a is 1 when |a| < 2^-54.
BelowHalfUlp(a) == a.m # 0 /\ SciLessPositive([a EXCEPT !.m = Abs(a.m)], Sci(555, -19))

\* 1 - a, for a with at most nine decimals or |a| < 2^-54
SciOneMinus(a) ==
  IF a.k = "NaN" THEN SciNaN
  ELSE IF BelowHalfUlp(a) THEN Sci(1, 0)
  ELSE IF a.e >= 0 THEN Sci(1 - a.m * TenTo(a.e), 0)
  ELSE Sci(TenTo(-a.e) - a.m, a.e)

\* a.toFixed(digits): the integer the digits spell, ties away from zero
SciToFixed(a, digits) ==
  IF a.k = "NaN" THEN [s |-> "NaN", v |-> 0]
  ELSE LET shift == a.e + digits
           mag == Abs(a.m)
           v == IF shift >= 0 THEN mag * TenTo(shift)
                ELSE IF shift < -9 THEN 0
                ELSE (2 * mag + TenTo(-shift)) \div (2 * TenTo(-shift))
       IN [s |-> "num", v |-> IF a.m < 0 THEN -v ELSE v]

\* parseFloat of a string toFixed(4) produced, as a probability
SciOfFixed4(t) == IF t.s = "NaN" THEN SciNaN ELSE Sci(t.v, -4)

\* A probability computed from a cdf: v (c = FALSE) or 1 - v (c = TRUE) with
\* v = m * 10^e; a double next to 1 is written exactly in the second form.
Prob(c, v) == [k |-> v.k, c |-> c /\ v.k = "num", m |-> v.m, e |-> v.e]

ProbNaN == Prob(FALSE, SciNaN)

ProbPart(p) == [k |-> p.k, m |-> p.m, e |-> p.e]

\* 1 - p
ProbOneMinus(p) ==
  IF p.k = "NaN" THEN ProbNaN
  ELSE IF p.c THEN Prob(FALSE, ProbPart(p))
  ELSE IF p.m = 0 \/ BelowHalfUlp(ProbPart(p)) THEN Prob(TRUE, Sci(0, 0))
  ELSE Prob(TRUE, ProbPart(p))

\* 2 * p, for p = v or for p = 1 - v with at most nine decimals in v
ProbDouble(p) ==
  IF p.k = "NaN" THEN ProbNaN
  ELSE IF p.c THEN Prob(FALSE, Sci(2 * (TenTo(-p.e) - p.m), p.e))
  ELSE Prob(FALSE, Sci(2 * p.m, p.e))

\* p < a for a probability p and a number a, as JavaScript compares
ProbLess(p, a) ==
  IF p.c THEN SciLess(SciOneMinus(a), ProbPart(p)) ELSE SciLess(ProbPart(p), a)

\* p.toFixed(4)
ProbToFixed4(p) ==
  IF p.k = "NaN" THEN [s |-> "NaN", v |-> 0]
  ELSE IF ~p.c THEN SciToFixed(ProbPart(p), 4)
  ELSE LET shift == p.e + 4
       IN [s |-> "num",
           v |-> IF shift >= 0 THEN 10000 - p.m * TenTo(shift)
                 ELSE IF shift < -9 THEN 10000
                 ELSE 10000 - CeilDiv(2 * p.m - TenTo(-shift), 2 * TenTo(-shift))]

TEST_TYPES == [PROPORTION |-> "proportion", MEAN |-> "mean"]
TAIL_TYPES == [TWO |-> "two-tailed", RIGHT |-> "right-tailed", LEFT |-> "left-tailed"]
DISTRIBUTION_TYPES == [Z |-> "z", T |-> "t"]

\* The text of the significance-level field: the empty string or a numeral.
EmptyLevel == [num |-> FALSE, m |-> 0, e |-> 0]
LevelText(m, e) == [num |-> TRUE, m |-> m, e |-> e]

\* parseFloat of the text of the significance-level field
parseLevel(text) == IF text.num THEN Sci(text.m, text.e) ELSE SciNaN

\* parseInt of the text of a number input
parseInt(text) ==
  IF ~text.num THEN NaN
  ELSE Num(IF text.n >= 0 THEN text.n \div text.d ELSE -((-text.n) \div text.d))

DEFAULT_VALUES ==
  [proportion |->
     [sampleProportion |-> NumText(65, 100), hypothesizedProportion |-> NumText(1, 2),
      sampleSize |-> NumText(100, 1), significanceLevel |-> LevelText(5, -2)],
   mean |->
     [sampleMean |-> NumText(51, 2), hypothesizedMean |-> NumText(24, 1),
      sampleSize |-> NumText(30, 1), stdDev |-> NumText(7, 2),
      significanceLevel |-> LevelText(5, -2), stdDevType |-> "unknown"]]

\* 1 - jStat.normal.cdf(z, 0, 1) for z >= 0, to six significant digits.  The
\* cdf is a double: beyond z = 8.3 it is exactly 1 and the difference is 0.
NormalUpperTail(z) ==
  CASE z = Rat(0, 1) -> Sci(5, -1)
    [] z = Rat(3, 1) -> Sci(13499, -7)
    [] z = Rat(9, 1) -> Sci(0, 0)
    [] z = Rat(3, 2) -> Sci(668072, -7)
    [] z = Rat(9, 2) -> Sci(339767, -11)
    [] z = Rat(16431, 7000) -> Sci(945537, -8)
    [] z = Rat(12, 7) -> Sci(432381, -7)

\* 1 - jStat.studentt.cdf(t, df) for t >= 0, to six significant digits.
StudentUpperTail(t, df) ==
  CASE t = Rat(0, 1) /\ df = Num(29) -> Sci(5, -1)
    [] t = Rat(0, 1) /\ df = Num(15) -> Sci(5, -1)
    [] t = Rat(16431, 7000) /\ df = Num(29) -> Sci(12974, -6)
    [] t = Rat(12, 7) /\ df = Num(29) -> Sci(485733, -7)
    [] t = Rat(16431, 7000) /\ df = Num(15) -> Sci(16526, -6)
    [] t = Rat(12, 7) /\ df = Num(15) -> Sci(535288, -7)

\* jStat.normal.inv(p, 0, 1) for 0 < p < 1, to four decimals.
NormalQuantile(p) ==
  CASE p = Sci(25, -3) -> Rat(-49, 25)
    [] p = Sci(5, -2) -> Rat(-16449, 10000)
    [] p = Sci(95, -2) -> Rat(16449, 10000)
    [] p = Sci(5, -3) -> Rat(-12879, 5000)
    [] p = Sci(1, -2) -> Rat(-23263, 10000)
    [] p = Sci(99, -2) -> Rat(23263, 10000)
    [] p = Sci(5, -31) -> Rat(-22861, 2000)
    [] p = Sci(1, -30) -> Rat(-113701, 10000)
    [] p = Sci(75, -2) -> Rat(1349, 2000)
    [] p = Sci(1, -1) -> Rat(-801, 625)
    [] p = Sci(9, -1) -> Rat(801, 625)
    [] p = Sci(2, -2) -> Rat(-20537, 10000)
    [] p = Sci(98, -2) -> Rat(20537, 10000)

\* jStat.studentt.inv(p, df) for 0 < p < 1, to four decimals.
StudentQuantile(p, df) ==
  CASE p = Sci(25, -3) /\ df = Num(29) -> Rat(-5113, 2500)
    [] p = Sci(5, -2) /\ df = Num(29) -> Rat(-16991, 10000)
    [] p = Sci(95, -2) /\ df = Num(29) -> Rat(16991, 10000)
    [] p = Sci(5, -3) /\ df = Num(29) -> Rat(-6891, 2500)
    [] p = Sci(1, -2) /\ df = Num(29) -> Rat(-1231, 500)
    [] p = Sci(99, -2) /\ df = Num(29) -> Rat(1231, 500)
    [] p = Sci(25, -3) /\ df = Num(15) -> Rat(-10657, 5000)
    [] p = Sci(5, -2) /\ df = Num(15) -> Rat(-17531, 10000)
    [] p = Sci(95, -2) /\ df = Num(15) -> Rat(17531, 10000)
    [] p = Sci(5, -3) /\ df = Num(15) -> Rat(-29467, 10000)
    [] p = Sci(1, -2) /\ df = Num(15) -> Rat(-1041, 400)
    [] p = Sci(99, -2) /\ df = Num(15) -> Rat(1041, 400)
    [] p = Sci(1, -1) /\ df = Num(29) -> Rat(-6557, 5000)
    [] p = Sci(9, -1) /\ df = Num(29) -> Rat(6557, 5000)
    [] p = Sci(2, -2) /\ df = Num(29) -> Rat(-21503, 10000)
    [] p = Sci(98, -2) /\ df = Num(29) -> Rat(21503, 10000)
    [] p = Sci(1, -1) /\ df = Num(15) -> Rat(-6703, 5000)
    [] p = Sci(9, -1) /\ df = Num(15) -> Rat(6703, 5000)
    [] p = Sci(2, -2) /\ df = Num(15) -> Rat(-4497, 2000)
    [] p = Sci(98, -2) /\ df = Num(15) -> Rat(4497, 2000)
    [] p = Sci(25, -3) /\ df = Num(9) -> Rat(-11311, 5000)
    [] p = Sci(5, -2) /\ df = Num(9) -> Rat(-18331, 10000)
    [] p = Sci(95, -2) /\ df = Num(9) -> Rat(18331, 10000)
    [] p = Sci(5, -3) /\ df = Num(9) -> Rat(-16249, 5000)
    [] p = Sci(1, -2) /\ df = Num(9) -> Rat(-14107, 5000)
    [] p = Sci(99, -2) /\ df = Num(9) -> Rat(14107, 5000)
    [] p = Sci(1, -1) /\ df = Num(9) -> Rat(-1383, 1000)
    [] p = Sci(9, -1) /\ df = Num(9) -> Rat(1383, 1000)
    [] p = Sci(2, -2) /\ df = Num(9) -> Rat(-1499, 625)
    [] p = Sci(98, -2) /\ df = Num(9) -> Rat(1499, 625)

\* jStat.normal.cdf(z, 0, 1)
jStatNormalCdf(z) ==
  IF IsNaN(z) THEN ProbNaN
  ELSE IF z.n >= 0 THEN Prob(TRUE, NormalUpperTail(z))
  ELSE Prob(FALSE, NormalUpperTail(RatNeg(z)))

\* jStat.studentt.cdf(t, df)
jStatStudenttCdf(t, df) ==
  IF IsNaN(t) THEN ProbNaN
  ELSE IF t.n >= 0 THEN Prob(TRUE, StudentUpperTail(t, df))
  ELSE Prob(FALSE, StudentUpperTail(RatNeg(t), df))

\* jStat.normal.inv(p, 0, 1) = -1.41421356237309505 * erfcinv(2 * p), where
\* erfcinv returns 100 for an argument <= 0 and -100 for an argument >= 2.
jStatNormalInv(p) ==
  IF p.k = "NaN" THEN NaN
  ELSE IF p.m <= 0 THEN Rat(-1414214, 10000)
  ELSE IF ~SciLess(p, Sci(1, 0)) THEN Rat(1414214, 10000)
  ELSE NormalQuantile(p)

\* jStat.studentt.inv(p, df), called with 0 < p < 1
jStatStudenttInv(p, df) == StudentQuantile(p, df)

\* dist.cdf(x, ...params) and dist.inv(p, ...params) of getPValue and
\* getCriticalValue
DistCdf(distribution, x, df) ==
  IF distribution = DISTRIBUTION_TYPES.Z THEN jStatNormalCdf(x) ELSE jStatStudenttCdf(x, df)

DistInv(distribution, p, df) ==
  IF distribution = DISTRIBUTION_TYPES.Z THEN jStatNormalInv(p) ELSE jStatStudenttInv(p, df)

\* getCriticalValue with the right-tailed test read at alpha, as the left-tailed
getCriticalValueAtAlpha(alpha, distribution, tailType, df) ==
  CASE tailType = TAIL_TYPES.TWO -> RatNeg(RatAbs(DistInv(distribution, SciHalf(alpha), df)))
    [] tailType = TAIL_TYPES.RIGHT -> DistInv(distribution, alpha, df)
    [] tailType = TAIL_TYPES.LEFT -> DistInv(distribution, alpha, df)
    [] OTHER -> Num(0)

getCriticalValue(alpha, distribution, tailType, df) ==
  CASE tailType = TAIL_TYPES.TWO -> RatNeg(RatAbs(DistInv(distribution, SciHalf(alpha), df)))
    [] tailType = TAIL_TYPES.RIGHT -> DistInv(distribution, SciOneMinus(alpha), df)
    [] tailType = TAIL_TYPES.LEFT -> DistInv(distribution, alpha, df)
    [] OTHER -> Num(0)

getPValue(testStatistic, distribution, tailType, df) ==
  CASE tailType = TAIL_TYPES.TWO ->
         ProbDouble(ProbOneMinus(DistCdf(distribution, RatAbs(testStatistic), df)))
    [] tailType = TAIL_TYPES.RIGHT -> ProbOneMinus(DistCdf(distribution, testStatistic, df))
    [] tailType = TAIL_TYPES.LEFT -> DistCdf(distribution, testStatistic, df)
    [] OTHER -> Prob(FALSE, Sci(0, 0))

\* The decision of calculateProportionTest and calculateMeanTest
Rejects(tailType, testStatistic, criticalValue) ==
  IF tailType = TAIL_TYPES.TWO THEN RatGreater(RatAbs(testStatistic), RatAbs(criticalValue))
  ELSE IF tailType = TAIL_TYPES.RIGHT THEN RatGreater(testStatistic, criticalValue)
  ELSE RatLess(testStatistic, criticalValue)

\* The chart createVisualization sets: the density curve of the distribution
\* over [-4, 4], split at the critical value(s) according to the tail type,
\* with markers at the critical value(s) and at the test statistic.  The
\* chart is kept as the values its datasets are computed from.
createVisualization(h, testStatistic, criticalValue, distribution, df) ==
  [kind |-> "line", distribution |-> distribution, df |-> df, tailType |-> h.tailType,
   criticalValue |-> criticalValue, testStatistic |-> testStatistic]

\* HypoAlert with the previous result and chart cleared
HypoAlertClearing(h) ==
  [h EXCEPT !.alert = "Please fill in all fields with valid numbers",
            !.result = EmptyResult, !.chartData = NullChart]

HypoAlert(h) == [h EXCEPT !.alert = "Please fill in all fields with valid numbers"]

\* The standard error and the statistic of calculateProportionTest
ProportionStandardError(p_0, n) == JsSqrt(RatDiv(RatMul(p_0, RatSub(Num(1), p_0)), n))

ProportionStatistic(p_hat, p_0, n) == RatDiv(RatSub(p_hat, p_0), ProportionStandardError(p_0, n))

\* The confidence interval of calculateProportionTest
\* ProportionInterval without the clamp of the bounds to [0, 1]
ProportionIntervalUnclamped(p_hat, n, zCritical) ==
  LET marginOfError == RatMul(zCritical, JsSqrt(RatDiv(RatMul(p_hat, RatSub(Num(1), p_hat)), n)))
  IN << ToFixed(RatSub(p_hat, marginOfError), 4), ToFixed(RatAdd(p_hat, marginOfError), 4) >>

ProportionInterval(p_hat, n, zCritical) ==
  LET marginOfError == RatMul(zCritical, JsSqrt(RatDiv(RatMul(p_hat, RatSub(Num(1), p_hat)), n)))
  IN << ToFixed(RatMax(Num(0), RatSub(p_hat, marginOfError)), 4),
        ToFixed(RatMin(Num(1), RatAdd(p_hat, marginOfError)), 4) >>

\* null, where a confidence interval can also stand
NoInterval == <<>>

ProportionOutcome(h, p_hat, n, alpha, z, criticalValue) ==
  [h EXCEPT
     !.alert = "",
     !.result =
       [testStatistic |-> ToFixed(z, 4),
        criticalValue |-> ToFixed(criticalValue, 4),
        pValue |-> ProbToFixed4(getPValue(z, DISTRIBUTION_TYPES.Z, h.tailType, Null)),
        confidenceInterval |->
          IF h.includeConfidenceInterval
          THEN ProportionInterval(p_hat, n,
                 RatAbs(getCriticalValue(alpha, DISTRIBUTION_TYPES.Z, TAIL_TYPES.TWO, Null)))
          ELSE NoInterval,
        reject |-> Rejects(h.tailType, z, criticalValue),
        distribution |-> DISTRIBUTION_TYPES.Z],
     !.chartData = createVisualization(h, z, criticalValue, DISTRIBUTION_TYPES.Z, Null)]

ProportionParsed(h, p_hat, p_0, n, alpha) ==
  IF IsNaN(p_hat) \/ IsNaN(p_0) \/ IsNaN(n) \/ alpha.k = "NaN" THEN HypoAlert(h)
  ELSE ProportionOutcome(h, p_hat, n, alpha, ProportionStatistic(p_hat, p_0, n),
                         getCriticalValue(alpha, DISTRIBUTION_TYPES.Z, h.tailType, Null))

\* calculateProportionTest, run in the render whose state is h.
calculateProportionTest(h) ==
  ProportionParsed(h, parseFloat(h.inputs.sampleProportion),
                   parseFloat(h.inputs.hypothesizedProportion),
                   parseInt(h.inputs.sampleSize), parseLevel(h.inputs.significanceLevel))

\* The distribution, the standard error and the statistic of calculateMeanTest
MeanDistribution(stdDevType) ==
  IF stdDevType = "known" THEN DISTRIBUTION_TYPES.Z ELSE DISTRIBUTION_TYPES.T

MeanStandardError(s, n) == RatDiv(s, JsSqrt(n))

MeanStatistic(x_bar, mu_0, s, n) == RatDiv(RatSub(x_bar, mu_0), MeanStandardError(s, n))

\* The confidence interval of calculateMeanTest
MeanInterval(x_bar, standardError, criticalForCI) ==
  LET marginOfError == RatMul(criticalForCI, standardError)
  IN << ToFixed(RatSub(x_bar, marginOfError), 4), ToFixed(RatAdd(x_bar, marginOfError), 4) >>

MeanOutcome(h, x_bar, s, n, alpha, distribution, df, testStat, criticalValue) ==
  [h EXCEPT
     !.alert = "",
     !.result =
       [testStatistic |-> ToFixed(testStat, 4),
        criticalValue |-> ToFixed(criticalValue, 4),
        pValue |-> ProbToFixed4(getPValue(testStat, distribution, h.tailType, df)),
        confidenceInterval |->
          IF h.includeConfidenceInterval
          THEN MeanInterval(x_bar, MeanStandardError(s, n),
                 RatAbs(getCriticalValue(alpha, distribution, TAIL_TYPES.TWO, df)))
          ELSE NoInterval,
        reject |-> Rejects(h.tailType, testStat, criticalValue),
        distribution |-> distribution,
        df |-> IF distribution = DISTRIBUTION_TYPES.T THEN df ELSE Null],
     !.chartData = createVisualization(h, testStat, criticalValue, distribution, df)]

MeanParsed(h, x_bar, mu_0, n, s, alpha, distribution, df) ==
  IF IsNaN(x_bar) \/ IsNaN(mu_0) \/ IsNaN(n) \/ IsNaN(s) \/ alpha.k = "NaN" THEN HypoAlert(h)
  ELSE MeanOutcome(h, x_bar, s, n, alpha, distribution, df, MeanStatistic(x_bar, mu_0, s, n),
                   getCriticalValue(alpha, distribution, h.tailType, df))

\* calculateMeanTest, run in the render whose state is h.
calculateMeanTest(h) ==
  MeanParsed(h, parseFloat(h.inputs.sampleMean), parseFloat(h.inputs.hypothesizedMean),
             parseInt(h.inputs.sampleSize), parseFloat(h.inputs.stdDev),
             parseLevel(h.inputs.significanceLevel), MeanDistribution(h.inputs.stdDevType),
             RatSub(parseInt(h.inputs.sampleSize), Num(1)))

HypoInit ==
  [testType |-> TEST_TYPES.PROPORTION, tailType |-> TAIL_TYPES.TWO,
   includeConfidenceInterval |-> FALSE, inputs |-> DEFAULT_VALUES.proportion,
   result |-> EmptyResult, chartData |-> NullChart, showErrorExplanation |-> FALSE,
   alert |-> ""]

\* The number of user events a session of the hypothesis-test calculator is
\* followed for.
MaxHypoEvents == 5

HypoHandled == events < MaxHypoEvents /\ events' = events + 1

\* The texts typed into the fields of the proportion test and of the mean test.
ProportionFieldEntries ==
  [sampleProportion |-> {EmptyText, NumText(95, 100)},
   hypothesizedProportion |-> {EmptyText, NumText(3, 2)},
   sampleSize |-> {EmptyText, NumText(25, 1)},
   significanceLevel |-> {EmptyLevel, LevelText(1, -2), LevelText(1, -30), LevelText(15, -1)}]

MeanFieldEntries ==
  [sampleMean |-> {EmptyText, NumText(24, 1)},
   hypothesizedMean |-> {EmptyText},
   sampleSize |-> {EmptyText, NumText(16, 1)},
   stdDev |-> {EmptyText, NumText(-7, 2)},
   significanceLevel |-> {EmptyLevel, LevelText(1, -2)},
   stdDevType |-> {"known", "unknown"}]

FieldEntries(testType) ==
  IF testType = TEST_TYPES.PROPORTION THEN ProportionFieldEntries ELSE MeanFieldEntries

\* handleChange: setInputs({...inputs, [name]: value}) for a field of the
\* selected test type
handleChange ==
  /\ \E name \in DOMAIN FieldEntries(hypo.testType) :
       \E value \in FieldEntries(hypo.testType)[name] :
         hypo' = [hypo EXCEPT !.inputs = [hypo.inputs EXCEPT ![name] = value], !.alert = ""]
  /\ HypoHandled
  /\ UNCHANGED <<stats, normal, poisson, binomial, dice, rules, probe>>

\* handleTestTypeChange without setResult({}) and setChartData(null)
handleTestTypeChangeKeepingResult ==
  /\ \E newType \in {TEST_TYPES.PROPORTION, TEST_TYPES.MEAN} \ {hypo.testType} :
       hypo' = [hypo EXCEPT !.testType = newType, !.inputs = DEFAULT_VALUES[newType],
                            !.alert = ""]
  /\ HypoHandled
  /\ UNCHANGED <<stats, normal, poisson, binomial, dice, rules, probe>>

\* handleTestTypeChange
handleTestTypeChange ==
  /\ \E newType \in {TEST_TYPES.PROPORTION, TEST_TYPES.MEAN} \ {hypo.testType} :
       hypo' = [hypo EXCEPT !.testType = newType, !.inputs = DEFAULT_VALUES[newType],
                            !.result = EmptyResult, !.chartData = NullChart, !.alert = ""]
  /\ HypoHandled
  /\ UNCHANGED <<stats, normal, poisson, binomial, dice, rules, probe>>

\* onChange of the tail-type select
setTailType ==
  /\ \E t \in {TAIL_TYPES.TWO, TAIL_TYPES.RIGHT, TAIL_TYPES.LEFT} \ {hypo.tailType} :
       hypo' = [hypo EXCEPT !.tailType = t, !.alert = ""]
  /\ HypoHandled
  /\ UNCHANGED <<stats, normal, poisson, binomial, dice, rules, probe>>

\* onChange of the 'Include Confidence Interval' checkbox
setIncludeConfidenceInterval ==
  /\ hypo' = [hypo EXCEPT !.includeConfidenceInterval = ~hypo.includeConfidenceInterval,
                          !.alert = ""]
  /\ HypoHandled
  /\ UNCHANGED <<stats, normal, poisson, binomial, dice, rules, probe>>

\* onChange of the 'Show Error Type Explanation' checkbox
setShowErrorExplanation ==
  /\ hypo' = [hypo EXCEPT !.showErrorExplanation = ~hypo.showErrorExplanation, !.alert = ""]
  /\ HypoHandled
  /\ UNCHANGED <<stats, normal, poisson, binomial, dice, rules, probe>>

\* calculate: onClick of the Calculate Test button
calculate ==
  /\ hypo' = IF hypo.testType = TEST_TYPES.PROPORTION
             THEN calculateProportionTest(hypo)
             ELSE calculateMeanTest(hypo)
  /\ HypoHandled
  /\ UNCHANGED <<stats, normal, poisson, binomial, dice, rules, probe>>

NextHypothesis ==
  \/ handleChange
  \/ handleTestTypeChange
  \/ setTailType
  \/ setIncludeConfidenceInterval
  \/ setShowErrorExplanation
  \/ calculate

\* What the results panel shows: it is rendered when result.testStatistic is
\* defined, from result, chartData and the current inputs.significanceLevel.
ResultsPanel(h) ==
  IF "testStatistic" \notin DOMAIN h.result THEN [shown |-> FALSE]
  ELSE [shown |-> TRUE,
        chart |-> h.chartData,
        testStatistic |-> h.result.testStatistic,
        criticalValue |-> h.result.criticalValue,
        pValue |-> h.result.pValue,
        reject |-> h.result.reject,
        decisionLevel |-> h.inputs.significanceLevel,
        confidenceInterval |-> h.result.confidenceInterval,
        \* ((1 - inputs.significanceLevel) * 100).toFixed(0)
        intervalLabel |->
          IF h.result.confidenceInterval = NoInterval THEN [s |-> "none", v |-> 0]
          ELSE IF h.inputs.significanceLevel.num
          THEN SciToFixed(SciOneMinus(parseLevel(h.inputs.significanceLevel)), 2)
          ELSE [s |-> "num", v |-> 100],
        comparison |->
          IF SciLess(SciOfFixed4(h.result.pValue), parseLevel(h.inputs.significanceLevel))
          THEN "<" ELSE ">=",
        comparisonLevel |-> h.inputs.significanceLevel]

(***************************************************************************)
(* The probability-rules module (HypothesisTestCalculator.jsx,             *)
(* ProbabilityRulesModule and MathEngine.calculateProbabilityRules).  The  *)
(* three probabilities of its state are held in hundredths, the step of    *)
(* their sliders.                                                          *)
(***************************************************************************)
RulesInit == [probA |-> 50, probB |-> 30, probAandB |-> 10, ruleType |-> "independent"]

\* The slider positions followed, in hundredths
ProbChoices == {0, 5, 10, 30, 50, 90, 100}

RULE_TYPES == {"independent", "dependent", "mutuallyExclusive"}

\* The probability of h hundredths
Hundredths(h) == Rat(h, 100)

\* MathEngine.calculateProbabilityRules(probA, probB, probAandB, ruleType)
calculateProbabilityRules(probA, probB, probAandB, ruleType) ==
  [probNotA |-> RatSub(Num(1), probA),
   probNotB |-> RatSub(Num(1), probB),
   probAorB |-> IF ruleType = "mutuallyExclusive" THEN RatAdd(probA, probB)
                ELSE RatSub(RatAdd(probA, probB), probAandB),
   probAgivenB |-> IF RatGreater(probB, Num(0)) THEN RatDiv(probAandB, probB) ELSE Num(0),
   probBgivenA |-> IF RatGreater(probA, Num(0)) THEN RatDiv(probAandB, probA) ELSE Num(0)]

\* results of a render in state r (useMemo)
RulesResults(r) ==
  calculateProbabilityRules(Hundredths(r.probA), Hundredths(r.probB),
                            Hundredths(r.probAandB), r.ruleType)

\* vennData.datasets[0].data of a render in state r: Only A, Only B, Both A
\* and B, Neither A nor B
vennData(r) ==
  LET probA == Hundredths(r.probA)
      probB == Hundredths(r.probB)
      probAandB == Hundredths(r.probAandB)
  IN <<RatMax(Num(0), RatSub(probA, probAandB)),
       RatMax(Num(0), RatSub(probB, probAandB)),
       RatMax(Num(0), probAandB),
       RatMax(Num(0), RatSub(Num(1), RatSub(RatAdd(probA, probB), probAandB)))>>

\* The P(A) slider moved to value
setProbA(value) ==
  /\ rules' = [rules EXCEPT !.probA = value]
  /\ UNCHANGED <<stats, hypo, normal, poisson, binomial, dice, events, probe>>

\* The P(B) slider moved to value
setProbB(value) ==
  /\ rules' = [rules EXCEPT !.probB = value]
  /\ UNCHANGED <<stats, hypo, normal, poisson, binomial, dice, events, probe>>

\* The P(A and B) slider, shown unless the events are mutually exclusive and
\* ranging from 0 to Math.min(probA, probB), moved to value
setProbAandB(value) ==
  /\ rules.ruleType # "mutuallyExclusive"
  /\ value <= rules.probA /\ value <= rules.probB
  /\ rules' = [rules EXCEPT !.probAandB = value]
  /\ UNCHANGED <<stats, hypo, normal, poisson, binomial, dice, events, probe>>

\* The relationship selected
setRuleType(value) ==
  /\ rules' = [rules EXCEPT !.ruleType = value]
  /\ UNCHANGED <<stats, hypo, normal, poisson, binomial, dice, events, probe>>

\* A click on Reset
resetRules ==
  /\ rules' = RulesInit
  /\ UNCHANGED <<stats, hypo, normal, poisson, binomial, dice, events, probe>>

NextRules ==
  \/ \E value \in ProbChoices : setProbA(value)
  \/ \E value \in ProbChoices : setProbB(value)
  \/ \E value \in ProbChoices : setProbAandB(value)
  \/ \E value \in RULE_TYPES : setRuleType(value)
  \/ resetRules

(***************************************************************************)
(* The dice simulator (HypothesisTestCalculator.jsx, DiceSimulatorModule). *)
(* Beside the component's state, dice holds the timeouts rollDice has set  *)
(* and that have not fired yet (each with the diceCount of the render it   *)
(* was set in), the state of the generator behind Math.random, and the     *)
(* clock Date.now reads, which every event advances.                       *)
(***************************************************************************)
\* The number of clicks on Roll, and of resets and changes of the number of
\* dice, a session of the simulator is followed for.
MaxRolls == 21
MaxChanges == 1

\* Math.random: a generator of period 16, whose state s stands for s/16
RandomNext(s) == (5 * s + 3) % 16

RECURSIVE RandomAfter(_, _)
\* The state of the generator after k calls of Math.random
RandomAfter(s, k) == IF k = 0 THEN s ELSE RandomNext(RandomAfter(s, k - 1))

\* Math.floor(Math.random() * 6) + 1 for the Math.random() of state s
DieFace(s) == (6 * s) \div 16 + 1

\* Array(diceCount).fill(0).map(() => Math.floor(Math.random() * 6) + 1)
NewValues(s, diceCount) == [i \in 1..diceCount |-> DieFace(RandomAfter(s, i))]

\* prev.slice(-k)
SliceLast(prev, k) == SubSeq(prev, IF Len(prev) > k THEN Len(prev) - k + 1 ELSE 1, Len(prev))

RollHistoryKeepingAll(prev, roll) == Append(prev, roll)
\* [...prev.slice(-19), roll]
RollHistoryAfter(prev, roll) == Append(SliceLast(prev, 19), roll)

DiceInit ==
  [diceCount |-> 2, diceValues |-> <<1, 1>>, isRolling |-> FALSE, rollHistory |-> << >>,
   timeouts |-> << >>, random |-> 0, now |-> 0, rolls |-> 0, changes |-> 0]

\* A click on Roll Dice (disabled while isRolling)
rollDice ==
  /\ dice.rolls < MaxRolls
  /\ ~dice.isRolling
  /\ dice' = [dice EXCEPT !.isRolling = TRUE,
                          !.timeouts = Append(@, dice.diceCount),
                          !.now = @ + 1,
                          !.rolls = @ + 1]
  /\ UNCHANGED <<stats, hypo, normal, poisson, binomial, rules, events, probe>>

\* The callback of the timeout with its history entry appended twice
rollCompletesRecordingTwice ==
  /\ dice.timeouts # << >>
  /\ LET newValues == NewValues(dice.random, Head(dice.timeouts))
         entry == [values |-> newValues, sum |-> SumSeq(newValues),
                   timestamp |-> dice.now + 1]
     IN dice' = [dice EXCEPT
                   !.diceValues = newValues,
                   !.isRolling = FALSE,
                   !.rollHistory = RollHistoryAfter(RollHistoryAfter(@, entry), entry),
                   !.timeouts = Tail(@),
                   !.random = RandomAfter(@, Head(dice.timeouts)),
                   !.now = @ + 1]
  /\ UNCHANGED <<stats, hypo, normal, poisson, binomial, rules, events, probe>>

\* The callback of the oldest timeout of rollDice, 1000 ms after the click
rollCompletes ==
  /\ dice.timeouts # << >>
  /\ LET newValues == NewValues(dice.random, Head(dice.timeouts))
     IN dice' = [dice EXCEPT
                   !.diceValues = newValues,
                   !.isRolling = FALSE,
                   !.rollHistory =
                     RollHistoryAfter(@, [values |-> newValues, sum |-> SumSeq(newValues),
                                          timestamp |-> dice.now + 1]),
                   !.timeouts = Tail(@),
                   !.random = RandomAfter(@, Head(dice.timeouts)),
                   !.now = @ + 1]
  /\ UNCHANGED <<stats, hypo, normal, poisson, binomial, rules, events, probe>>

\* The slider of the number of dice moved to count, and the effect on diceCount
setDiceCount(count) ==
  /\ dice.changes < MaxChanges
  /\ count # dice.diceCount
  /\ dice' = [dice EXCEPT !.diceCount = count,
                          !.diceValues = [i \in 1..count |-> 1],
                          !.now = @ + 1,
                          !.changes = @ + 1]
  /\ UNCHANGED <<stats, hypo, normal, poisson, binomial, rules, events, probe>>

\* A click on Reset
resetDice ==
  /\ dice.changes < MaxChanges
  /\ dice' = [dice EXCEPT !.diceCount = 2,
                          !.diceValues = <<1, 1>>,
                          !.isRolling = FALSE,
                          !.rollHistory = << >>,
                          !.now = @ + 1,
                          !.changes = @ + 1]
  /\ UNCHANGED <<stats, hypo, normal, poisson, binomial, rules, events, probe>>

\* The positions of the slider followed: its ends and the count constructed with
DiceCounts == {1, 2, 6}

NextDice ==
  \/ rollDice
  \/ rollCompletes
  \/ \E count \in DiceCounts : setDiceCount(count)
  \/ resetDice

\* probe holds one call of a pure function: its arguments, then its result.
\* It is idle in the specifications of the components.
Idle == [stage |-> "idle"]

\* Every component as constructed.
Components ==
  /\ stats = StatsInit
  /\ hypo = HypoInit
  /\ normal = NormalInit
  /\ poisson = PoissonInit
  /\ binomial = BinomialInit
  /\ dice = DiceInit
  /\ rules = RulesInit
  /\ events = 0

Init == Components /\ probe = Idle

SpecStatistics == Init /\ [][NextStatistics]_vars
SpecHypothesis == Init /\ [][NextHypothesis]_vars
SpecNormal == Init /\ [][NextNormal]_vars
SpecPoisson == Init /\ [][NextPoisson]_vars
SpecBinomial == Init /\ [][NextBinomial]_vars
SpecRules == Init /\ [][NextRules]_vars

(***************************************************************************)
(* Outlier flagging as a pure function of the sample: the charts            *)
(* calculateStatistics builds, from the bounds calculateAllStatistics      *)
(* returns for the sample.                                                  *)
(***************************************************************************)
\* The longest sample enumerated, and the values it is drawn from.
MaxLen == 3
SampleValues == {1, 2, 3, 9}

RECURSIVE SeqsUpTo(_, _)
SeqsUpTo(S, len) ==
  IF len = 0 THEN {<<>>}
  ELSE LET shorter == SeqsUpTo(S, len - 1)
       IN shorter \cup {Append(q, v) : q \in {r \in shorter : Len(r) = len - 1}, v \in S}

Samples ==
  (SeqsUpTo(SampleValues, MaxLen) \ {<<>>})
    \cup {<<1, 2, 3, 4, 7>>, parseInputNumbers(SAMPLE_DATASETS[3])}

InitOutliers ==
  /\ Components
  /\ \E sample \in Samples : probe = [stage |-> "sample", sample |-> sample]

\* The bounds of the sample and the two charts built from them.
OutlierCharts(sample, st) ==
  [stage |-> "charts", sample |-> sample, st |-> st,
   bar |-> generateBarChart(StatsInit, sample, st.outlierMin, st.outlierMax).chartData,
   box |-> generateBoxPlot(StatsInit, sample, st.outlierMin, st.outlierMax).chartData]

buildCharts ==
  /\ probe.stage = "sample"
  /\ probe' = OutlierCharts(probe.sample, calculateAllStatistics(probe.sample))
  /\ UNCHANGED <<stats, hypo, normal, poisson, binomial, dice, rules, events>>

SpecOutliers == InitOutliers /\ [][buildCharts]_vars

(***************************************************************************)
(* The claims about the descriptive-statistics calculator.                  *)
(***************************************************************************)

\* C1: pressing Calculate while the input text is empty or whitespace-only
\* raises a message and leaves result, chartData and frequencyTable as they
\* were before the click.
C1_EmptyInputIsRejected ==
  [][(calculateStatistics /\ stats.input = <<>>)
       => /\ stats'.alert # ""
          /\ stats'.result = stats.result
          /\ stats'.chartData = stats.chartData
          /\ stats'.frequencyTable = stats.frequencyTable]_vars

\* C2: a histogram with a positive class width counts every sample value in
\* exactly one bin, so the cumulative relative frequency of its last class is
\* 100.00 (the frequencies add up to the sample size).
C2_HistogramCountsEveryValue ==
  (/\ stats.chartData.kind = HISTOGRAM
   /\ stats.chartData.classes[1][2] > stats.chartData.classes[1][1])
    => stats.frequencyTable[Len(stats.frequencyTable)].cumulativeFreq
         = [s |-> "num", v |-> 10000]

\* The sample a bar chart shows: every label as often as its bar is high.
RECURSIVE BarSample(_, _)
BarSample(labels, data) ==
  IF labels = <<>> THEN <<>>
  ELSE [i \in 1..Head(data) |-> Head(labels)] \o BarSample(Tail(labels), Tail(data))

\* The displayed statistics are those of the sample the chart shows: of the
\* bars of a bar chart, of the box of a box plot.
ChartShowsResultSample(chart, result) ==
  /\ chart.kind = BAR =>
       formatResult(calculateAllStatistics(BarSample(chart.labels, chart.data))) = result
  /\ chart.kind = BOXPLOT =>
       /\ ToFixed(chart.q1, 4) = result.q1
       /\ ToFixed(chart.q3, 4) = result.q3
       /\ ToFixed(chart.median, 4) = result.median

\* C4: in every reachable state the displayed chart is built from the sample
\* the displayed statistics were computed from.
C4_ChartShowsResultSample ==
  stats.chartData # NullChart => ChartShowsResultSample(stats.chartData, stats.result)

\* Whether the box plot, and the bar chart, flag the value v of the probe's sample.
InBoxOutliers(v) == v \in Range(probe.box.outliers)
BarFlags(v) == \E i \in 1..Len(probe.bar.labels) : probe.bar.labels[i] = v /\ probe.bar.outlier[i]

SkewedSample == parseInputNumbers(SAMPLE_DATASETS[3])

C9_PoissonXWithinSliderRange ==
  0 <= poisson.x /\ poisson.x <= maxX(poisson.lambda)

\* C10: in every reachable state of the binomial calculator 1 <= n <= 50 and
\* 0 <= x <= n, and a step that lowers n below the current x lowers x to n.
C10_BinomialXWithinN ==
  /\ [](/\ 1 <= binomial.n /\ binomial.n <= 50
        /\ 0 <= binomial.x /\ binomial.x <= binomial.n)
  /\ [][(setN /\ binomial'.n < binomial.x) => binomial'.x = binomial'.n]_vars

\* The n slider stands at its minimum, below the initial x, and x has
\* followed it.
C10_Witness ==
  binomial.n = PARAMETER_RANGES.n.min /\ binomial.x = binomial.n

(***************************************************************************)
(* The claim about the simple normal-distribution calculator.               *)
(***************************************************************************)

\* C7: no sequence of input edits and Calculate clicks of the simple normal
\* calculator reaches a state whose rendering throws; after a successful
\* left-tail or right-tail calculation the results panel renders.
C7_RenderNeverThrows == ~RenderThrows(normal) /\ normal.mounted

(***************************************************************************)
(* The claims about the hypothesis-test calculator.                         *)
(***************************************************************************)
\* Every numeric field of the selected test parses to a number.
AllFieldsNumeric(h) ==
  /\ \A name \in DOMAIN h.inputs \ {"stdDevType"} : h.inputs[name].num

\* The statistic calculate computes from the inputs of h.
StatisticOf(h) ==
  IF h.testType = TEST_TYPES.PROPORTION
  THEN ProportionStatistic(parseFloat(h.inputs.sampleProportion),
                           parseFloat(h.inputs.hypothesizedProportion),
                           parseInt(h.inputs.sampleSize))
  ELSE MeanStatistic(parseFloat(h.inputs.sampleMean), parseFloat(h.inputs.hypothesizedMean),
                     parseFloat(h.inputs.stdDev), parseInt(h.inputs.sampleSize))

\* h holds a two-tailed z-test whose inputs are accepted, with 0 < alpha < 1
\* and a finite statistic.
TwoTailedZTest(h) ==
  /\ h.tailType = TAIL_TYPES.TWO
  /\ h.testType = TEST_TYPES.MEAN => h.inputs.stdDevType = "known"
  /\ AllFieldsNumeric(h)
  /\ SciLess(Sci(0, 0), parseLevel(h.inputs.significanceLevel))
  /\ SciLess(parseLevel(h.inputs.significanceLevel), Sci(1, 0))
  /\ ~IsNaN(StatisticOf(h))

\* C3: for every two-tailed z-test accepted with 0 < alpha < 1 and a finite
\* statistic z, the stored decision reject is true iff |z| > |criticalValue|
\* and iff the unrounded p-value 2 * (1 - cdf(|z|)) is less than alpha.
C3_DecisionPathsAgree ==
  [][(calculate /\ TwoTailedZTest(hypo))
       => /\ hypo'.result.reject
               <=> RatGreater(RatAbs(StatisticOf(hypo)),
                              RatAbs(getCriticalValue(parseLevel(hypo.inputs.significanceLevel),
                                       DISTRIBUTION_TYPES.Z, TAIL_TYPES.TWO, Null)))
          /\ hypo'.result.reject
               <=> ProbLess(getPValue(StatisticOf(hypo), DISTRIBUTION_TYPES.Z,
                                      TAIL_TYPES.TWO, Null),
                            parseLevel(hypo.inputs.significanceLevel))]_vars

\* C5: after a successful calculation, editing an input field or the tail
\* type without pressing Calculate leaves everything the results panel shows
\* unchanged.
C5_EditsLeaveResultsPanel ==
  [][((handleChange \/ setTailType) /\ ResultsPanel(hypo).shown)
       => ResultsPanel(hypo') = ResultsPanel(hypo)]_vars

\* The fields of h are all numeric and one of them is out of range.
OutOfRangeInputs(h) ==
  /\ AllFieldsNumeric(h)
  /\ \/ ~SciLess(Sci(0, 0), parseLevel(h.inputs.significanceLevel))
     \/ ~SciLess(parseLevel(h.inputs.significanceLevel), Sci(1, 0))
     \/ ~RatGreater(parseInt(h.inputs.sampleSize), Num(0))
     \/ /\ h.testType = TEST_TYPES.PROPORTION
        /\ \/ ~RatGreater(parseFloat(h.inputs.hypothesizedProportion), Num(0))
           \/ ~RatLess(parseFloat(h.inputs.hypothesizedProportion), Num(1))
     \/ /\ h.testType = TEST_TYPES.MEAN
        /\ ~RatGreater(parseFloat(h.inputs.stdDev), Num(0))

\* C6: pressing Calculate with fields that are all numeric but out of range
\* raises an error, and result and chartData stay unchanged.
C6_OutOfRangeIsRejected ==
  [][(calculate /\ OutOfRangeInputs(hypo))
       => /\ hypo'.alert # ""
          /\ hypo'.result = hypo.result
          /\ hypo'.chartData = hypo.chartData]_vars

(***************************************************************************)
(* getCriticalValue as a pure function of the significance level, the      *)
(* distribution, the tail type and the degrees of freedom                   *)
(* calculateMeanTest passes (df = n - 1).                                   *)
(***************************************************************************)
CriticalLevels == {Sci(1, -1), Sci(5, -2), Sci(2, -2), Sci(1, -2)}
CriticalSizes == {10, 16, 30}

InitCritical ==
  /\ Components
  /\ \E alpha \in CriticalLevels, n \in CriticalSizes,
        distribution \in {DISTRIBUTION_TYPES.Z, DISTRIBUTION_TYPES.T},
        tailType \in {TAIL_TYPES.TWO, TAIL_TYPES.LEFT, TAIL_TYPES.RIGHT} :
       probe = [stage |-> "level", alpha |-> alpha, distribution |-> distribution,
                tailType |-> tailType, df |-> RatSub(Num(n), Num(1))]

criticalValueOf ==
  /\ probe.stage = "level"
  /\ probe' = [stage |-> "critical", alpha |-> probe.alpha,
               distribution |-> probe.distribution, tailType |-> probe.tailType,
               df |-> probe.df,
               criticalValue |-> getCriticalValue(probe.alpha, probe.distribution,
                                                  probe.tailType, probe.df)]
  /\ UNCHANGED <<stats, hypo, normal, poisson, binomial, dice, rules, events>>

SpecCritical == InitCritical /\ [][criticalValueOf]_vars

(***************************************************************************)
(* The claims about the functions of the hypothesis-test calculator.        *)
(***************************************************************************)

PointEstimate(h) ==
  IF h.testType = TEST_TYPES.PROPORTION THEN parseFloat(h.inputs.sampleProportion)
  ELSE parseFloat(h.inputs.sampleMean)

StatisticStandardError(h) ==
  IF h.testType = TEST_TYPES.PROPORTION
  THEN ProportionStandardError(parseFloat(h.inputs.hypothesizedProportion),
                               parseInt(h.inputs.sampleSize))
  ELSE MeanStandardError(parseFloat(h.inputs.stdDev), parseInt(h.inputs.sampleSize))

SampleProportionError(h) ==
  JsSqrt(RatDiv(RatMul(parseFloat(h.inputs.sampleProportion),
                       RatSub(Num(1), parseFloat(h.inputs.sampleProportion))),
                parseInt(h.inputs.sampleSize)))

TwoTailedMagnitude(h) ==
  RatAbs(getCriticalValue(parseLevel(h.inputs.significanceLevel),
           IF h.testType = TEST_TYPES.PROPORTION THEN DISTRIBUTION_TYPES.Z
           ELSE MeanDistribution(h.inputs.stdDevType),
           TAIL_TYPES.TWO, RatSub(parseInt(h.inputs.sampleSize), Num(1))))

\* point - m and point + m, as the result holds them
IntervalAround(point, m) == << ToFixed(RatSub(point, m), 4), ToFixed(RatAdd(point, m), 4) >>

\* C12 as stated: the result of a Calculate contains a confidence interval iff
\* 'Include Confidence Interval' was checked, and then, for both tests, its
\* bounds are point estimate -/+ m with m = |two-tailed critical value| * the
\* standard error that divides (observed - hypothesized) in the statistic.
C12_IntervalUsesStatisticError ==
  [][(calculate /\ AllFieldsNumeric(hypo))
       => hypo'.result.confidenceInterval =
            IF hypo.includeConfidenceInterval
            THEN IntervalAround(PointEstimate(hypo),
                   RatMul(TwoTailedMagnitude(hypo), StatisticStandardError(hypo)))
            ELSE NoInterval]_vars

\* C12 amended: the result of a Calculate whose fields all parse contains a
\* confidence interval iff 'Include Confidence Interval' was checked; for the
\* mean test its bounds are x_bar -/+ m with m = |two-tailed critical value| *
\* s/sqrt(n), the standard error of the statistic; for the proportion test
\* m = |two-tailed critical value| * sqrt(p_hat(1 - p_hat)/n), the standard
\* error of the sample proportion, and the bounds are clamped to [0, 1].
C12_IntervalByTestType ==
  [][(calculate /\ AllFieldsNumeric(hypo))
       => /\ (hypo'.result.confidenceInterval # NoInterval)
               <=> hypo.includeConfidenceInterval
          /\ (hypo.includeConfidenceInterval /\ hypo.testType = TEST_TYPES.MEAN)
               => hypo'.result.confidenceInterval =
                    IntervalAround(PointEstimate(hypo),
                      RatMul(TwoTailedMagnitude(hypo), StatisticStandardError(hypo)))
          /\ (hypo.includeConfidenceInterval /\ hypo.testType = TEST_TYPES.PROPORTION)
               => LET m == RatMul(TwoTailedMagnitude(hypo), SampleProportionError(hypo))
                  IN hypo'.result.confidenceInterval =
                       << ToFixed(RatMax(Num(0), RatSub(PointEstimate(hypo), m)), 4),
                          ToFixed(RatMin(Num(1), RatAdd(PointEstimate(hypo), m)), 4) >>]_vars

\* C12 witness: a proportion test calculated with the interval requested, whose
\* upper bound the clamp brought down to 1.
C12_Witness ==
  /\ hypo.testType = TEST_TYPES.PROPORTION
  /\ "confidenceInterval" \in DOMAIN hypo.result
  /\ hypo.result.confidenceInterval # NoInterval
  /\ hypo.includeConfidenceInterval
  /\ hypo.inputs.sampleProportion = NumText(95, 100)
  /\ hypo.result.confidenceInterval[2] = ToFixed(Num(1), 4)

\* C13: if a numeric field of the selected test family does not parse to a
\* number, Calculate raises an alert and leaves result and chartData exactly
\* as they were: a previous result stays, an empty result stays empty.
C13_UnparsableFieldAlerts ==
  [][(calculate /\ ~AllFieldsNumeric(hypo))
       => /\ hypo'.alert # ""
          /\ hypo'.result = hypo.result
          /\ hypo'.chartData = hypo.chartData]_vars

\* C13 witness: the alert is up over a result calculated before a field was
\* emptied.
C13_Witness ==
  /\ hypo.alert # ""
  /\ ~AllFieldsNumeric(hypo)
  /\ "testStatistic" \in DOMAIN hypo.result
  /\ hypo.chartData # NullChart

(***************************************************************************)
(* The validation of calculateStatistics: Calculate clicked on a text of    *)
(* up to MAX_INPUT_COUNT + 1 numbers, typed over an earlier calculation.    *)
(***************************************************************************)
\* The texts calculated first, and the texts typed over them.
EarlierTexts ==
  { <<BadTok>>, <<Tok(7)>>, <<Tok(5), BadTok, Tok(12)>>, TextOf(<<1, 2, 3, 4, 7>>) }

ValidationTexts ==
  { <<>>, <<BadTok>>, <<BadTok, BadTok>>, <<Tok(7)>>, <<Tok(5), BadTok, Tok(12)>>,
    TextOf([i \in 1..MAX_INPUT_COUNT |-> i]),
    Append(TextOf([i \in 1..MAX_INPUT_COUNT |-> i]), BadTok),
    TextOf([i \in 1..(MAX_INPUT_COUNT + 1) |-> i]) }

\* setInput(first), Calculate, setInput(second)
InitValidation ==
  /\ hypo = HypoInit /\ normal = NormalInit /\ poisson = PoissonInit
  /\ binomial = BinomialInit /\ dice = DiceInit /\ rules = RulesInit
  /\ events = 0 /\ probe = Idle
  /\ \E first \in EarlierTexts, second \in ValidationTexts :
       stats = [CalculateStatisticsResult([StatsInit EXCEPT !.input = first])
                  EXCEPT !.input = second, !.alert = ""]

SpecValidation == InitValidation /\ [][calculateStatistics]_vars

\* C14: calculateStatistics rejects exactly when the parsed sample
\* (parseInputNumbers of the text) holds no number or more than 100 numbers;
\* on rejection it changes none of result, chartData, frequencyTable,
\* minBoundary, classWidth and showChart; a sample of 1 to 100 numbers is
\* always accepted; and non-numeric tokens mixed with numeric ones are dropped
\* without any message: the result is the one of the numeric tokens alone.
C14_RejectsEmptyOrOversized ==
  [][calculateStatistics =>
       LET numeric == SelectSeq(stats.input, LAMBDA t : t.num)
           count   == IF stats.input = <<>> THEN 1 ELSE Len(numeric)
           rejected == stats'.alert # ""
       IN /\ rejected <=> (count = 0 \/ count > 100)
          /\ rejected =>
               /\ stats'.result = stats.result
               /\ stats'.chartData = stats.chartData
               /\ stats'.frequencyTable = stats.frequencyTable
               /\ stats'.minBoundary = stats.minBoundary
               /\ stats'.classWidth = stats.classWidth
               /\ stats'.showChart = stats.showChart
          /\ (count >= 1 /\ count <= 100) =>
               /\ stats'.showChart
               /\ HasMean(stats'.result)
               /\ stats'.chartData # NullChart
          /\ (count >= 1 /\ count <= 100 /\ Len(numeric) >= 1) =>
               stats'.result =
                 formatResult(calculateAllStatistics([i \in 1..Len(numeric) |-> numeric[i].v]))]_vars

\* C14 witness: a text of 101 numbers was rejected and the result of the
\* earlier sample 5, 12 (typed with a non-numeric token between) still stands.
C14_Witness ==
  /\ Len(stats.input) = MAX_INPUT_COUNT + 1
  /\ \A i \in 1..Len(stats.input) : stats.input[i].num
  /\ stats.alert = "Please enter no more than 100 numbers."
  /\ HasMean(stats.result)
  /\ stats.result = formatResult(calculateAllStatistics(<<5, 12>>))

(***************************************************************************)
(* calculatePercentile as a pure function of a sorted sample and a          *)
(* percentile.  The percentiles are dyadic, as 0.25 and 0.75 of the         *)
(* quartiles are: percentile * (length - 1) is then exact in a double.      *)
(***************************************************************************)
Percentiles ==
  { [n |-> 0, d |-> 1], [n |-> 1, d |-> 8], [n |-> 1, d |-> 4], [n |-> 1, d |-> 2],
    [n |-> 3, d |-> 4], [n |-> 1, d |-> 1] }

SortedSamples == {SortAsc(sample) : sample \in Samples}

InitPercentile ==
  /\ Components
  /\ \E sorted \in SortedSamples, p \in Percentiles :
       probe = [stage |-> "sorted", sorted |-> sorted, p |-> p]

percentileOf ==
  /\ probe.stage = "sorted"
  /\ probe' = [stage |-> "percentile", sorted |-> probe.sorted, p |-> probe.p,
               value |-> calculatePercentile(probe.sorted, probe.p)]
  /\ UNCHANGED <<stats, hypo, normal, poisson, binomial, dice, rules, events>>

SpecPercentile == InitPercentile /\ [][percentileOf]_vars

\* C15: for a non-empty sorted sample of size n and a percentile p in [0, 1],
\* calculatePercentile returns the linear interpolation at index p * (n - 1)
\* between the values at ranks floor(index) and floor(index) + 1, the lower
\* value when the upper rank is out of bounds, and exactly the order statistic
\* sorted[index] when index is an integer (for n = 5, Q1 = sorted[1] and
\* Q3 = sorted[3], counted from 0).
C15_PercentileInterpolates ==
  probe.stage = "percentile" =>
    LET sorted == probe.sorted
        n      == Len(sorted)
        whole  == FloorDiv(probe.p.n * (n - 1), probe.p.d)
        part   == Rat(probe.p.n * (n - 1) - whole * probe.p.d, probe.p.d)
        at(i)  == Num(sorted[i + 1])
    IN /\ whole + 1 >= n => probe.value = at(whole)
       /\ whole + 1 < n =>
            /\ probe.value = RatAdd(at(whole), RatMul(part, RatSub(at(whole + 1), at(whole))))
            /\ ~RatLess(probe.value, at(whole))
            /\ ~RatGreater(probe.value, at(whole + 1))
       /\ part = Num(0) => probe.value = at(whole)
       /\ (n = 5 /\ probe.p = [n |-> 1, d |-> 4]) => probe.value = at(1)
       /\ (n = 5 /\ probe.p = [n |-> 3, d |-> 4]) => probe.value = at(3)

\* C15 witness: the third quartile of the five values 1 2 3 4 7 is the fourth
\* of them.
C15_Witness ==
  /\ probe.stage = "percentile"
  /\ probe.sorted = <<1, 2, 3, 4, 7>>
  /\ probe.p = [n |-> 3, d |-> 4]
  /\ probe.value = Num(4)

(***************************************************************************)
(* The probability the Poisson and the binomial calculator display, as a    *)
(* pure function of their state.  A value jStat computes is held by the     *)
(* call that computes it; 0 and 1, which jStat and PoissonMath return       *)
(* outright at the ends of the range, are held exactly.  lambda is in       *)
(* tenths and p in hundredths, the steps of their sliders.                  *)
(***************************************************************************)
Exactly(v) == [f |-> "const", x |-> v, a |-> 0, b |-> 0]

\* 1 - c
Complement(c) ==
  IF c.f = "const" THEN Exactly(1 - c.x)
  ELSE [f |-> "1-", x |-> c.x, a |-> c.a, b |-> c.b, of |-> c.f]

\* jStat.poisson.pdf(k, l) and jStat.poisson.cdf(x, l): the cdf is 0 for x < 0
jStatPoissonPdf(k, l) == [f |-> "poisson.pdf", x |-> k, a |-> l, b |-> 0]
jStatPoissonCdf(x, l) ==
  IF x < 0 THEN Exactly(0) ELSE [f |-> "poisson.cdf", x |-> x, a |-> l, b |-> 0]

\* jStat.binomial.pdf(k, n, p) and jStat.binomial.cdf(x, n, p): the cdf is 0
\* for x < 0 and 1 for x >= n
jStatBinomialPdf(k, n, p) == [f |-> "binomial.pdf", x |-> k, a |-> n, b |-> p]
jStatBinomialCdf(x, n, p) ==
  IF x < 0 THEN Exactly(0)
  ELSE IF x >= n THEN Exactly(1)
  ELSE [f |-> "binomial.cdf", x |-> x, a |-> n, b |-> p]

\* PoissonMath.pmf, PoissonMath.cdf and PoissonMath.atLeast
PoissonMathPmf(k, lambda) ==
  IF lambda <= 0 \/ k < 0 THEN Exactly(0) ELSE jStatPoissonPdf(k, lambda)

PoissonMathCdf(k, lambda) ==
  IF lambda <= 0 \/ k < 0 THEN Exactly(0) ELSE jStatPoissonCdf(k, lambda)

PoissonMathAtLeast(k, lambda) ==
  IF lambda <= 0 THEN Exactly(0)
  ELSE IF k <= 0 THEN Exactly(1)
  ELSE Complement(jStatPoissonCdf(k - 1, lambda))

\* probability of PoissonCalculator, in the render whose state is c
PoissonProbability(c) ==
  CASE c.probabilityType = "exact" -> PoissonMathPmf(c.x, c.lambda)
    [] c.probabilityType = "atMost" -> PoissonMathCdf(c.x, c.lambda)
    [] c.probabilityType = "atLeast" -> PoissonMathAtLeast(c.x, c.lambda)
    [] OTHER -> Exactly(0)

\* probability of BinomialCalculator with 1 - cdf(x) for at least x
BinomialProbabilityAbove(b) ==
  CASE b.probabilityType = "exact" -> jStatBinomialPdf(b.x, b.n, b.p)
    [] b.probabilityType = "atMost" -> jStatBinomialCdf(b.x, b.n, b.p)
    [] b.probabilityType = "atLeast" -> Complement(jStatBinomialCdf(b.x, b.n, b.p))
    [] OTHER -> Exactly(0)

\* probability of BinomialCalculator, in the render whose state is b
BinomialProbability(b) ==
  CASE b.probabilityType = "exact" -> jStatBinomialPdf(b.x, b.n, b.p)
    [] b.probabilityType = "atMost" -> jStatBinomialCdf(b.x, b.n, b.p)
    [] b.probabilityType = "atLeast" -> Complement(jStatBinomialCdf(b.x - 1, b.n, b.p))
    [] OTHER -> Exactly(0)

\* The states the two calculators are rendered in: every slider position of
\* x, for the lambdas, the n and the p of the sliders and the examples.
PoissonRenders ==
  [lambda : LambdaChoices \cup Range(POISSON_EXAMPLES), x : 0..maxX(300),
   probabilityType : PROBABILITY_TYPES, showNormalApprox : {FALSE}]

BinomialRenders ==
  {b \in [n : NChoices, p : PChoices, x : 0..PARAMETER_RANGES.n.max,
          probabilityType : PROBABILITY_TYPES] : b.x <= b.n}

InitDiscrete ==
  /\ Components
  /\ \/ \E c \in PoissonRenders : probe = [stage |-> "render", of |-> "poisson", c |-> c]
     \/ \E b \in BinomialRenders : probe = [stage |-> "render", of |-> "binomial", c |-> b]

probabilityOf ==
  /\ probe.stage = "render"
  /\ probe' = [stage |-> "probability", of |-> probe.of, c |-> probe.c,
               probability |-> IF probe.of = "poisson" THEN PoissonProbability(probe.c)
                               ELSE BinomialProbability(probe.c)]
  /\ UNCHANGED <<stats, hypo, normal, poisson, binomial, dice, rules, events>>

SpecDiscrete == InitDiscrete /\ [][probabilityOf]_vars

\* The probability displayed for at most x - 1 in the state c shows at least x in.
AtMostBelow(of, c) ==
  IF of = "poisson"
  THEN PoissonProbability([c EXCEPT !.x = c.x - 1, !.probabilityType = "atMost"])
  ELSE BinomialProbability([c EXCEPT !.x = c.x - 1, !.probabilityType = "atMost"])

\* CDF(x - 1) of the distribution of c, with CDF(-1) = 0
CdfBelow(of, c) ==
  IF c.x = 0 THEN Exactly(0)
  ELSE IF of = "poisson" THEN jStatPoissonCdf(c.x - 1, c.lambda)
  ELSE jStatBinomialCdf(c.x - 1, c.n, c.p)

\* C16: for the binomial calculator with 0 <= x <= n and for the Poisson
\* calculator with lambda > 0 and an integer x >= 0, the at-least probability
\* is 1 - CDF(x - 1) with CDF(-1) = 0: at-least(0) is exactly 1, and for
\* x >= 1 at-least(x) is the complement of at-most(x - 1), so the two sum to 1.
C16_AtLeastIsComplement ==
  (probe.stage = "probability" /\ probe.c.probabilityType = "atLeast") =>
    /\ probe.probability = Complement(CdfBelow(probe.of, probe.c))
    /\ probe.c.x = 0 => probe.probability = Exactly(1)
    /\ probe.c.x >= 1 => probe.probability = Complement(AtMostBelow(probe.of, probe.c))

\* C16 witness: the binomial calculator shows P(X >= 0) = 1 for n = 10, p = 0.5
C16_Witness ==
  /\ probe.stage = "probability"
  /\ probe.of = "binomial"
  /\ probe.c = [n |-> 10, p |-> 50, x |-> 0, probabilityType |-> "atLeast"]
  /\ probe.probability = Exactly(1)

(***************************************************************************)
(* The full normal-distribution calculator                                 *)
(* (NormalDistributionCalculator.jsx, NormalMath and the calculations of   *)
(* a render).  Its numbers are doubles: Float(r, e) is r * 10^e for a      *)
(* rational r of a few digits, with e = 0 for every number but a mean of   *)
(* 1e17 (whose ulp is 16).  A sum of two numbers of one exponent is exact; *)
(* a number below half an ulp of the other is absorbed by it.              *)
(***************************************************************************)
Float(r, e) == IF IsNaN(r) \/ r = Num(0) THEN [r |-> r, e |-> 0] ELSE [r |-> r, e |-> e]

\* A sum the model has no exact value for (never reached: see FloatAdd).
Inexact == [r |-> NaN, e |-> -1]

\* |b| < |a| * 2^-54, which is at most half an ulp of a: a + b is a.
NegligibleTo(b, a) ==
  /\ a.e - b.e = 17
  /\ RatLess(RatMul(Num(100), RatAbs(b.r)), RatMul(Num(555), RatAbs(a.r)))

\* a + b in double arithmetic
FloatAdd(a, b) ==
  IF a.e = b.e THEN Float(RatAdd(a.r, b.r), a.e)
  ELSE IF NegligibleTo(b, a) THEN a
  ELSE IF NegligibleTo(a, b) THEN b
  ELSE Inexact

FloatNeg(a) == Float(RatNeg(a.r), a.e)
FloatSub(a, b) == FloatAdd(a, FloatNeg(b))
FloatMul(a, b) == Float(RatMul(a.r, b.r), a.e + b.e)
FloatDiv(a, b) == Float(RatDiv(a.r, b.r), a.e - b.e)

\* a < b
FloatLess(a, b) ==
  IF a.e = b.e THEN RatLess(a.r, b.r)
  ELSE IF a.e > b.e THEN RatLess(a.r, Num(0))
  ELSE RatGreater(b.r, Num(0))

\* Math.max(a, b) and Math.min(a, b)
FloatMax(a, b) == IF FloatLess(a, b) THEN b ELSE a
\* The first argument in place of the smaller one
FloatFirst(a, b) == a
FloatMin(a, b) == IF FloatLess(b, a) THEN b ELSE a

\* The value of a field of the calculator's state: the text of a number
\* input (Blank is the empty string; a number input holds no other text that
\* is not a numeral) or the number the state was constructed with.
Blank == [num |-> FALSE, v |-> Float(Num(0), 0)]
Entered(n, d) == [num |-> TRUE, v |-> Float(Rat(n, d), 0)]
\* The mean 100000000000000000 (1e17)
EnteredBig == [num |-> TRUE, v |-> Float(Num(1), 17)]

\* safeParse(value, defaultValue): parseFloat, and the default for NaN
safeParse(value, defaultValue) == IF value.num THEN value.v ELSE defaultValue

\* NormalMath.toZScore(x, mean, sd)
toZScore(x, mean, sd) ==
  IF sd = Float(Num(0), 0) THEN Float(Num(0), 0) ELSE FloatDiv(FloatSub(x, mean), sd)

\* NormalMath.toXValue(z, mean, sd)
toXValue(z, mean, sd) == FloatAdd(mean, FloatMul(z, sd))

\* NormalMath.cdf and NormalMath.inv: the jStat calls, by name.
NormalMathCdf(x, mean, sd) == [fn |-> "jStat.normal.cdf", x |-> x, mean |-> mean, sd |-> sd]
NormalMathInv(p, mean, sd) == [fn |-> "jStat.normal.inv", p |-> p, mean |-> mean, sd |-> sd]

\* The z-score of a value jStat returned
ZScoreOf(value) == [fn |-> "toZScore", of |-> value]

\* The 0.0001 of safeSd and of safeInverseProb, and the 0.9999 of the latter.
SmallestSd == Float(Rat(1, 10000), 0)
LargestProbability == Float(Rat(9999, 10000), 0)

\* The probabilities of the percentiles of a render, in hundredths.
PercentileLevels == {1, 5, 10, 25, 50, 75, 90, 95, 99}

\* safeSd of the calculations of a render
calculationsSd(c) == FloatMax(safeParse(c.sd, Float(Num(1), 0)), SmallestSd)

\* The calculations of a render of the component in state c (useMemo).
calculations(c) ==
  LET safeMean == safeParse(c.mean, Float(Num(0), 0))
      safeSd == calculationsSd(c)
      safeValue1 == safeParse(c.value1, Float(Num(0), 0))
      safeValue2 == safeParse(c.value2, Float(Num(1), 0))
      safeInverseProb ==
        FloatMax(SmallestSd,
                 FloatMin(LargestProbability, safeParse(c.inverseProbability, Float(Rat(1, 2), 0))))
      x1 == IF c.inputType = "z" THEN toXValue(safeValue1, safeMean, safeSd) ELSE safeValue1
      x2 == IF c.inputType = "z" THEN toXValue(safeValue2, safeMean, safeSd) ELSE safeValue2
      lower == FloatMin(x1, x2)
      upper == FloatMax(x1, x2)
      between == [fn |-> "-", a |-> NormalMathCdf(upper, safeMean, safeSd),
                  b |-> NormalMathCdf(lower, safeMean, safeSd)]
  IN [x1 |-> x1, x2 |-> x2,
      z1 |-> toZScore(x1, safeMean, safeSd),
      z2 |-> toZScore(x2, safeMean, safeSd),
      probability |->
        CASE c.calcType = "left" -> NormalMathCdf(x1, safeMean, safeSd)
          [] c.calcType = "right" -> [fn |-> "1-", a |-> NormalMathCdf(x1, safeMean, safeSd)]
          [] c.calcType = "between" -> between
          [] OTHER -> [fn |-> "1-", a |-> between],
      description |->
        CASE c.calcType \in {"left", "right"} -> <<c.calcType, x1>>
          [] OTHER -> <<c.calcType, lower, upper>>,
      percentiles |-> [p \in PercentileLevels |-> NormalMathInv(Float(Rat(p, 100), 0), safeMean, safeSd)],
      mean |-> safeMean,
      sd |-> safeSd,
      inverseResults |->
        IF c.inverseMode
        THEN [probability |-> safeInverseProb,
              leftValue |-> NormalMathInv(safeInverseProb, safeMean, safeSd),
              rightValue |-> NormalMathInv(FloatSub(Float(Num(1), 0), safeInverseProb), safeMean, safeSd),
              leftZ |-> ZScoreOf(NormalMathInv(safeInverseProb, safeMean, safeSd)),
              rightZ |-> ZScoreOf(NormalMathInv(FloatSub(Float(Num(1), 0), safeInverseProb), safeMean, safeSd))]
        ELSE [probability |-> Null]]

\* The states the calculator is rendered in: the mean and the standard
\* deviation as constructed (0 and 1), emptied, and as entered; the values
\* as constructed, emptied, and as entered.
MeanFields == {Entered(0, 1), Blank, Entered(5, 1), EnteredBig}
SdFields == {Entered(1, 1), Blank, Entered(0, 1), Entered(-2, 1), Entered(2, 1), Entered(1, 2)}
FirstValueFields == {Entered(0, 1), Blank, Entered(1, 1), Entered(-3, 2), Entered(5, 2)}
SecondValueFields == {Entered(1, 1), Entered(2, 1)}
InverseFields == {Entered(1, 2), Entered(0, 1)}

NormalRenders ==
  [mean : MeanFields, sd : SdFields, value1 : FirstValueFields, value2 : SecondValueFields,
   inputType : {"x", "z"}, calcType : {"left", "right", "between", "outside"},
   inverseMode : BOOLEAN, inverseProbability : InverseFields]

InitCalculations ==
  /\ Components
  /\ \E c \in NormalRenders : probe = [stage |-> "state", c |-> c]

calculationsOf ==
  /\ probe.stage = "state"
  /\ probe' = [stage |-> "calculations", c |-> probe.c, calculations |-> calculations(probe.c)]
  /\ UNCHANGED <<stats, hypo, normal, poisson, binomial, dice, rules, events>>

SpecCalculations == InitCalculations /\ [][calculationsOf]_vars

\* C17: in the full normal-distribution calculator, for every entered
\* standard deviation (zero, negative and empty included) the sigma of a
\* render is at least 0.0001, and for a z input the z-score the render shows
\* for the value converted to x is the z entered: toZScore(toXValue(z)) = z.
C17_SigmaFloorAndRoundTrip ==
  probe.stage = "calculations" =>
    /\ ~FloatLess(probe.calculations.sd, SmallestSd)
    /\ probe.c.inputType = "z" =>
         /\ probe.calculations.z1 = safeParse(probe.c.value1, Float(Num(0), 0))
         /\ probe.calculations.z2 = safeParse(probe.c.value2, Float(Num(1), 0))

\* The sigma of every render is at least 0.0001.
SigmaAtLeastFloor ==
  probe.stage = "calculations" => ~FloatLess(probe.calculations.sd, SmallestSd)

\* Every sum of the renders followed is exact or an absorption.
SumsModelled ==
  probe.stage = "calculations" =>
    /\ probe.calculations.x1 # Inexact /\ probe.calculations.x2 # Inexact
    /\ probe.calculations.z1.e # -1 /\ probe.calculations.z2.e # -1

(***************************************************************************)
(* The combinatorics module (HypothesisTestCalculator.jsx, MathEngine and  *)
(* CombinatoricsModule).  Its numbers are doubles.  A natural number of    *)
(* any size is a sequence of limbs of 15 bits, least significant first,    *)
(* without leading zero limbs; a double is Mantissa * 2^e with an odd      *)
(* mantissa below 2^53, and every product and quotient is rounded to the   *)
(* nearest double, ties to even.                                           *)
(***************************************************************************)
Limb == 2^15

\* s without its most significant zero limbs
Trim(s) ==
  IF \A i \in 1..Len(s) : s[i] = 0 THEN << >>
  ELSE SubSeq(s, 1, CHOOSE i \in 1..Len(s) : s[i] # 0 /\ \A j \in (i + 1)..Len(s) : s[j] = 0)

\* The natural number x < 2^31
FromInt(x) == Trim(<<x % Limb, (x \div Limb) % Limb, x \div (Limb * Limb)>>)

LimbAt(a, i) == IF i \in 1..Len(a) THEN a[i] ELSE 0

RECURSIVE MulCarry(_, _, _, _)
MulCarry(a, k, i, carry) ==
  IF i > Len(a) THEN Trim(<<carry>>)
  ELSE <<(a[i] * k + carry) % Limb>> \o MulCarry(a, k, i + 1, (a[i] * k + carry) \div Limb)

\* a * k for 0 <= k < 2^15
MulSmall(a, k) == Trim(MulCarry(a, k, 1, 0))

RECURSIVE AddCarry(_, _, _, _)
AddCarry(a, b, i, carry) ==
  IF i > Len(a) /\ i > Len(b) THEN Trim(<<carry>>)
  ELSE <<(LimbAt(a, i) + LimbAt(b, i) + carry) % Limb>>
         \o AddCarry(a, b, i + 1, (LimbAt(a, i) + LimbAt(b, i) + carry) \div Limb)

BigAdd(a, b) == Trim(AddCarry(a, b, 1, 0))

RECURSIVE SubBorrow(_, _, _, _)
SubBorrow(a, b, i, borrow) ==
  IF i > Len(a) THEN << >>
  ELSE <<(a[i] - LimbAt(b, i) - borrow) % Limb>>
         \o SubBorrow(a, b, i + 1, IF a[i] - LimbAt(b, i) - borrow < 0 THEN 1 ELSE 0)

\* a - b for a >= b
BigSub(a, b) == Trim(SubBorrow(a, b, 1, 0))

BigLess(a, b) ==
  \/ Len(a) < Len(b)
  \/ /\ Len(a) = Len(b)
     /\ \E i \in 1..Len(a) : a[i] < b[i] /\ \A j \in (i + 1)..Len(a) : a[j] = b[j]

\* a * Limb^q
ShiftLimbs(a, q) == IF a = << >> THEN << >> ELSE [j \in 1..q |-> 0] \o a

RECURSIVE MulFrom(_, _, _)
MulFrom(a, b, i) ==
  IF i > Len(b) THEN << >>
  ELSE BigAdd(ShiftLimbs(MulSmall(a, b[i]), i - 1), MulFrom(a, b, i + 1))

BigMul(a, b) == MulFrom(a, b, 1)

\* The number of bits of a
BitLen(a) ==
  IF a = << >> THEN 0
  ELSE 15 * (Len(a) - 1) + CHOOSE k \in 1..15 : 2^(k - 1) <= a[Len(a)] /\ a[Len(a)] < 2^k

\* floor(a / 2^s)
ShiftRight(a, s) ==
  LET b == SubSeq(a, s \div 15 + 1, Len(a))
      t == s % 15
  IN Trim([k \in 1..Len(b) |-> b[k] \div 2^t + (LimbAt(b, k + 1) % 2^t) * 2^(15 - t)])

\* a * 2^s
ShiftLeft(a, s) == MulSmall(ShiftLimbs(a, s \div 15), 2^(s % 15))

\* a mod 2^s
LowBits(a, s) == BigSub(a, ShiftLeft(ShiftRight(a, s), s))

\* The number of zero bits a # 0 ends in
TrailingZeros(a) ==
  LET i == CHOOSE i \in 1..Len(a) : a[i] # 0 /\ \A j \in 1..(i - 1) : a[j] = 0
  IN 15 * (i - 1) + CHOOSE k \in 0..14 : a[i] % 2^k = 0 /\ (a[i] \div 2^k) % 2 = 1

\* The double m * 2^e for m below 2^53 (or a power of two times such a number)
Canon(m, e) ==
  IF m = << >> THEN [m |-> << >>, e |-> 0]
  ELSE [m |-> ShiftRight(m, TrailingZeros(m)), e |-> e + TrailingZeros(m)]

\* The double nearest m * 2^e (plus a nonzero fraction of 2^e when sticky),
\* ties to even
RoundToDouble(m, e, sticky) ==
  IF BitLen(m) <= 53 THEN Canon(m, e)
  ELSE LET s == BitLen(m) - 53
           q == ShiftRight(m, s)
           rest == LowBits(m, s)
           half == ShiftLeft(<<1>>, s - 1)
           up == BigLess(half, rest) \/ (rest = half /\ (sticky \/ q[1] % 2 = 1))
       IN Canon(IF up THEN BigAdd(q, <<1>>) ELSE q, e + s)

\* The double of the integer 0 <= i < 2^31
DoubleOf(i) == Canon(FromInt(i), 0)

\* a * b in double arithmetic
DoubleMul(a, b) == RoundToDouble(BigMul(a.m, b.m), a.e + b.e, FALSE)

\* The digit of n at position j (from 1) in base 32
Digit32(n, j) == (n[(j + 2) \div 3] \div 32^((j - 1) % 3)) % 32

\* The largest x with d * x <= rr, for rr < 32 * d
QuotientDigit(rr, d) ==
  CHOOSE x \in 0..31 : ~BigLess(rr, MulSmall(d, x)) /\ BigLess(rr, MulSmall(d, x + 1))

RECURSIVE DivStep(_, _, _, _)
\* Long division of n by d in base 32: <<the digits of the quotient, most
\* significant first, the remainder>>, from the digits found so far and the
\* remainder r they leave
DivStep(n, d, digits, r) ==
  IF Len(digits) = 3 * Len(n) THEN <<digits, r>>
  ELSE LET rr == BigAdd(MulSmall(r, 32), FromInt(Digit32(n, 3 * Len(n) - Len(digits))))
       IN DivStep(n, d, Append(digits, QuotientDigit(rr, d)),
                  BigSub(rr, MulSmall(d, QuotientDigit(rr, d))))

\* The number of the base-32 digits, most significant first
FromDigits32(digits) ==
  Trim([i \in 1..(Len(digits) \div 3) |->
          digits[Len(digits) - 3 * i + 3] + 32 * digits[Len(digits) - 3 * i + 2]
            + 1024 * digits[Len(digits) - 3 * i + 1]])

\* <<floor(n / d), n mod d>> for d # 0
BigDivMod(n, d) ==
  <<FromDigits32(DivStep(n, d, << >>, << >>)[1]), DivStep(n, d, << >>, << >>)[2]>>

\* a / b in double arithmetic, for b # 0
DoubleDiv(a, b) ==
  IF a.m = << >> THEN a
  ELSE LET k == BitLen(b.m) + 56 - BitLen(a.m)
           qr == BigDivMod(ShiftLeft(a.m, k), b.m)
       IN RoundToDouble(qr[1], a.e - b.e - k, qr[2] # << >>)

RECURSIVE factorialLoop(_, _, _)
\* for (let i = 2; i <= n; i++) result *= i
factorialLoop(result, i, n) ==
  IF i > n \/ result.m = << >> THEN result ELSE factorialLoop(DoubleMul(result, DoubleOf(i)), i + 1, n)

\* MathEngine.factorial(n)
factorial(n) ==
  IF n < 0 THEN Undefined
  ELSE IF n = 0 \/ n = 1 THEN DoubleOf(1)
  ELSE factorialLoop(DoubleOf(1), 2, n)

\* MathEngine.combination(n, r)
combination(n, r) ==
  IF r > n THEN DoubleOf(0)
  ELSE DoubleDiv(factorial(n), DoubleMul(factorial(r), factorial(n - r)))

\* MathEngine.permutation(n, r)
permutation(n, r) ==
  IF r > n THEN DoubleOf(0)
  ELSE DoubleDiv(factorial(n), factorial(n - r))

BigSquare(a) == BigMul(a, a)

RECURSIVE BigPower(_, _)
\* n^r, exactly
BigPower(n, r) ==
  IF r = 0 THEN <<1>>
  ELSE IF r % 2 = 0 THEN BigSquare(BigPower(n, r \div 2))
  ELSE MulSmall(BigSquare(BigPower(n, r \div 2)), n)

\* Math.pow(n, r) for integers n >= 1, r >= 0: n^r when it is a double, and
\* the double nearest it when it is none
MathPow(n, r) == RoundToDouble(BigPower(n, r), 0, FALSE)

\* The result of a render of CombinatoricsModule in state c (useMemo)
CombinatoricsResult(c) ==
  IF c.combType = "combination"
  THEN IF c.withReplacement THEN combination(c.n + c.r - 1, c.r) ELSE combination(c.n, c.r)
  ELSE IF c.combType = "permutation"
  THEN IF c.withReplacement THEN MathPow(c.n, c.r) ELSE permutation(c.n, c.r)
  ELSE factorial(c.n)

\* The states the module is rendered in: n of its slider (1..20) and of the
\* preset examples, r of its slider, whose maximum is the n of the time.
presetExamples ==
  {[n |-> 52, r |-> 5, combType |-> "combination", withReplacement |-> FALSE],
   [n |-> 10, r |-> 3, combType |-> "permutation", withReplacement |-> FALSE],
   [n |-> 6, r |-> 3, combType |-> "combination", withReplacement |-> FALSE],
   [n |-> 26, r |-> 4, combType |-> "permutation", withReplacement |-> TRUE]}

CombinatoricsRenders ==
  [n : 1..20, r : 0..20, combType : {"combination", "permutation", "factorial"},
   withReplacement : BOOLEAN] \cup presetExamples

InitCombinatorics ==
  /\ Components
  /\ \E c \in CombinatoricsRenders : probe = [stage |-> "state", c |-> c]

resultOf ==
  /\ probe.stage = "state"
  /\ probe' = [stage |-> "result", c |-> probe.c, result |-> CombinatoricsResult(probe.c)]
  /\ UNCHANGED <<stats, hypo, normal, poisson, binomial, dice, rules, events>>

SpecCombinatorics == InitCombinatorics /\ [][resultOf]_vars

RECURSIVE BigProduct(_, _)
\* lo * (lo + 1) * ... * hi, exactly
BigProduct(lo, hi) ==
  IF lo > hi THEN <<1>>
  ELSE IF lo = hi THEN FromInt(lo)
  ELSE BigMul(BigProduct(lo, (lo + hi) \div 2), BigProduct((lo + hi) \div 2 + 1, hi))

\* n!, exactly
BigFactorial(n) == BigProduct(1, n)

\* The double v is the natural number whose product with den is num.
IsQuotient(v, num, den) ==
  /\ v.e >= 0
  /\ BigMul(ShiftLeft(v.m, v.e), den) = num

\* C18: for all integers 0 <= r <= n of the module, combination(n, r) is
\* n!/(r!(n-r)!) and permutation(n, r) is n!/(n-r)!; for r > n both are 0;
\* and the results with replacement are n^r for permutations and
\* C(n+r-1, r) for combinations.
C18_CountsAreExact ==
  probe.stage = "result" =>
    LET n == probe.c.n
        r == probe.c.r
    IN /\ r <= n =>
            /\ IsQuotient(combination(n, r), BigFactorial(n),
                          BigMul(BigFactorial(r), BigFactorial(n - r)))
            /\ IsQuotient(permutation(n, r), BigFactorial(n), BigFactorial(n - r))
       /\ r > n => combination(n, r) = DoubleOf(0) /\ permutation(n, r) = DoubleOf(0)
       /\ (probe.c.combType = "permutation" /\ probe.c.withReplacement) =>
            IsQuotient(probe.result, BigPower(n, r), <<1>>)
       /\ (probe.c.combType = "combination" /\ probe.c.withReplacement) =>
            IsQuotient(probe.result, BigFactorial(n + r - 1),
                       BigMul(BigFactorial(r), BigFactorial(n - 1)))

(***************************************************************************)
(* The roll history of the dice simulator                                  *)
(***************************************************************************)
\* The states of the generator of Math.random the simulator is constructed in
RandomSeeds == {0, 11}

InitDice ==
  /\ stats = StatsInit
  /\ hypo = HypoInit
  /\ normal = NormalInit
  /\ poisson = PoissonInit
  /\ binomial = BinomialInit
  /\ rules = RulesInit
  /\ events = 0
  /\ probe = Idle
  /\ \E s \in RandomSeeds : dice = [DiceInit EXCEPT !.random = s]

SpecDice == InitDice /\ [][NextDice]_vars

\* Every roll of the history holds the sum of its values, each a face 1..6.
RollsAreSums ==
  \A i \in 1..Len(dice.rollHistory) :
    /\ dice.rollHistory[i].sum = SumSeq(dice.rollHistory[i].values)
    /\ \A j \in 1..Len(dice.rollHistory[i].values) : dice.rollHistory[i].values[j] \in 1..6

\* C19: in the dice simulator, after any sequence of rolls, resets and
\* changes of the number of dice, rollHistory holds at most 20 entries; a
\* roll that completes while 20 entries are present drops the oldest entry
\* and appends the new one last; and every entry's sum is the sum of its
\* values, each an integer in 1..6.
C19_HistoryKeepsLastTwenty ==
  /\ [](Len(dice.rollHistory) <= 20 /\ RollsAreSums)
  /\ [][(rollCompletes /\ Len(dice.rollHistory) = 20) =>
          /\ Len(dice'.rollHistory) = 20
          /\ SubSeq(dice'.rollHistory, 1, 19) = Tail(dice.rollHistory)
          /\ dice'.rollHistory[20].timestamp = dice'.now
          /\ dice'.rollHistory[20].values = dice'.diceValues]_vars

\* C19 witness: the 21st roll has completed, without a reset before it, and
\* the history holds 20 entries, the first roll dropped.
C19_Witness ==
  /\ dice.rolls = 21
  /\ dice.changes = 0
  /\ dice.timeouts = << >>
  /\ Len(dice.rollHistory) = 20
  /\ dice.rollHistory[1].timestamp = 4

(***************************************************************************)
(* calculateAllStatistics called twice on one array of the caller          *)
(***************************************************************************)
SortedInPlace(numbers) == [numbers |-> SortAsc(numbers), sorted |-> SortAsc(numbers)]
\* const sorted = [...numbers].sort((a, b) => a - b): the caller's array
\* after the statement, and the array sorted is bound to
SortedCopy(numbers) == [numbers |-> numbers, sorted |-> SortAsc(numbers)]

\* The caller holds the array numbers, whose content was sample at first.
InitRepeat ==
  /\ Components
  /\ \E sample \in Samples :
       probe = [stage |-> "caller", calls |-> 0, sample |-> sample, numbers |-> sample,
                results |-> << >>]

\* A call calculateAllStatistics(numbers) on the caller's array: the array
\* after the call, and the object returned
callAllStatistics ==
  /\ probe.stage = "caller"
  /\ probe.calls < 2
  /\ probe' = [probe EXCEPT
                 !.calls = @ + 1,
                 !.numbers = SortedCopy(probe.numbers).numbers,
                 !.results = Append(@, StatisticsOf(SortedCopy(probe.numbers).numbers,
                                                    SortedCopy(probe.numbers).sorted))]
  /\ UNCHANGED <<stats, hypo, normal, poisson, binomial, dice, rules, events>>

SpecRepeat == InitRepeat /\ [][callAllStatistics]_vars

InUnitInterval(a) == ~IsNaN(a) /\ ~RatLess(a, Num(0)) /\ ~RatGreater(a, Num(1))

\* The total the module prints under the chart
TotalProbability(r) ==
  RatAdd(RatAdd(vennData(r)[1], vennData(r)[2]), RatAdd(vennData(r)[3], vennData(r)[4]))

\* C21: in every reachable state of the probability-rules module the four
\* displayed regions Only A, Only B, Both A and B and Neither A nor B are
\* non-negative and add up to 1 within 0.001.
C21_RegionsAddToOne ==
  /\ \A i \in 1..4 : ~RatLess(vennData(rules)[i], Num(0))
  /\ RatLess(RatAbs(RatSub(TotalProbability(rules), Num(1))), Rat(1, 1000))

\* C26: in every reachable state of the probability-rules module
\* P(A and B) <= min(P(A), P(B)), and each of P(not A), P(not B), P(A or B),
\* P(A|B) and P(B|A) lies in [0, 1], for each relationship.
C26_ProbabilitiesCoherent ==
  /\ rules.probAandB <= rules.probA
  /\ rules.probAandB <= rules.probB
  /\ InUnitInterval(RulesResults(rules).probNotA)
  /\ InUnitInterval(RulesResults(rules).probNotB)
  /\ InUnitInterval(RulesResults(rules).probAorB)
  /\ InUnitInterval(RulesResults(rules).probAgivenB)
  /\ InUnitInterval(RulesResults(rules).probBgivenA)

(***************************************************************************)
(* The test type of the hypothesis-test calculator and its result          *)
(***************************************************************************)
\* The test type whose calculation stored the result: only calculateMeanTest
\* stores df.
ResultTestType(result) ==
  IF "df" \in DOMAIN result THEN TEST_TYPES.MEAN ELSE TEST_TYPES.PROPORTION

\* C22: changing the test type sets inputs to the defaults of the new type,
\* empties result, sets chartData to null and leaves tailType and
\* includeConfidenceInterval unchanged; so in every reachable state a
\* non-empty result was computed under the selected test type, and a result
\* with distribution t implies the test type mean.
C22_TestTypeChangeResets ==
  /\ [][handleTestTypeChange =>
          /\ hypo'.testType # hypo.testType
          /\ hypo'.inputs = DEFAULT_VALUES[hypo'.testType]
          /\ hypo'.result = EmptyResult
          /\ hypo'.chartData = NullChart
          /\ hypo'.tailType = hypo.tailType
          /\ hypo'.includeConfidenceInterval = hypo.includeConfidenceInterval]_vars
  /\ [](hypo.result # EmptyResult =>
          /\ ResultTestType(hypo.result) = hypo.testType
          /\ hypo.result.distribution = DISTRIBUTION_TYPES.T => hypo.testType = TEST_TYPES.MEAN)

\* C22 witness: the test type was changed to mean after a proportion test
\* was calculated with a confidence interval and a right tail: the inputs are
\* the defaults of the mean test and the result is empty.
C22_Witness ==
  /\ hypo.testType = TEST_TYPES.MEAN
  /\ hypo.inputs = DEFAULT_VALUES.mean
  /\ hypo.result = EmptyResult
  /\ hypo.chartData = NullChart
  /\ hypo.includeConfidenceInterval
  /\ hypo.tailType = TAIL_TYPES.RIGHT
  /\ events = 4

(***************************************************************************)
(* Reset and the roll timers of the dice simulator                         *)
(***************************************************************************)
\* The state reset leaves: useState's initial values
DiceAtDefaults ==
  /\ dice.diceCount = DiceInit.diceCount
  /\ dice.diceValues = DiceInit.diceValues
  /\ dice.isRolling = DiceInit.isRolling
  /\ dice.rollHistory = DiceInit.rollHistory

\* C23: after Reset the state stays at its defaults until Roll is pressed
\* again: the timer of a roll started before the reset changes neither
\* diceValues nor rollHistory, and at most one roll timer is pending at any
\* time.
C23_ResetCancelsPendingRoll ==
  /\ [](Len(dice.timeouts) <= 1)
  /\ [][(DiceAtDefaults /\ rollCompletes) =>
          /\ dice'.diceValues = dice.diceValues
          /\ dice'.rollHistory = dice.rollHistory]_vars

(***************************************************************************)
(* The number of dice shown                                                *)
(***************************************************************************)
\* C24: in every state in which no roll is in progress and all effects have
\* run, diceValues has exactly diceCount entries, each an integer in 1..6,
\* under every interleaving of dice-count changes with a pending roll timer.
C24_OneValuePerDie ==
  ~dice.isRolling =>
    /\ Len(dice.diceValues) = dice.diceCount
    /\ \A i \in 1..Len(dice.diceValues) : dice.diceValues[i] \in 1..6

(***************************************************************************)
(* Every roll is recorded once                                             *)
(***************************************************************************)
\* The event loop runs the callback of every timeout that is due.
SpecDiceFair == SpecDice /\ WF_vars(rollCompletes)

\* The number of roll timers that have fired
RollsCompleted == dice.rolls - Len(dice.timeouts)

\* The k-th press of Roll waits for its timer
RollPending(k) == RollsCompleted < k /\ k <= dice.rolls

\* The state the timer of the k-th press leaves: no roll in progress and the
\* entry of that roll last in rollHistory
RollRecorded(k) ==
  /\ RollsCompleted = k
  /\ ~dice.isRolling
  /\ dice.rollHistory # << >>
  /\ dice.rollHistory[Len(dice.rollHistory)].timestamp = dice.now
  /\ dice.rollHistory[Len(dice.rollHistory)].values = dice.diceValues

\* C25: every press of Roll, possible only while isRolling is false, is
\* eventually followed, once its timer fires, by a state with isRolling false
\* in which exactly one new entry for that roll has been appended to
\* rollHistory; no roll is lost and none is recorded twice.
C25_EveryRollRecordedOnce ==
  /\ [][rollDice => ~dice.isRolling]_vars
  /\ \A k \in 1..MaxRolls : RollPending(k) ~> RollRecorded(k)
  /\ [][rollCompletes =>
          /\ ~dice'.isRolling
          /\ Len(dice'.timeouts) = Len(dice.timeouts) - 1
          /\ dice'.rollHistory =
               Append(SliceLast(dice.rollHistory, 19),
                      dice'.rollHistory[Len(dice'.rollHistory)])
          /\ Len(dice'.rollHistory[Len(dice'.rollHistory)].values) = Head(dice.timeouts)]_vars
  /\ [][~rollCompletes => dice'.rollHistory \in {dice.rollHistory, << >>}]_vars

\* C25 witness: three presses of Roll, all three timers fired, three entries
\* in rollHistory and no roll in progress.
C25_Witness ==
  /\ dice.rolls = 3
  /\ dice.timeouts = << >>
  /\ ~dice.isRolling
  /\ Len(dice.rollHistory) = 3
  /\ dice.changes = 0

(***************************************************************************)
(* The class width of the histogram                                        *)
(***************************************************************************)
\* C27: in every reachable state of the descriptive-statistics calculator
\* the class width used for binning is strictly positive, after any
\* Calculate and any class-width edit, so the bin index
\* floor((value - minBoundary) / classWidth) is a finite integer.
C27_ClassWidthPositive == stats.classWidth > 0

(***************************************************************************)
(* The measures stored in result                                           *)
(***************************************************************************)
\* The keys calculateAllStatistics returns
MEASURES ==
  {"min", "max", "range", "mean", "median", "stdDev", "variance",
   "q1", "q3", "iqr", "outlierMin", "outlierMax"}

\* C28: for every accepted sample of size n >= 1, n = 1 included, each of the
\* twelve measures stored in result is a finite number: none is NaN or
\* infinite.
C28_MeasuresFinite ==
  HasMean(stats.result) =>
    /\ DOMAIN stats.result = MEASURES
    /\ \A key \in MEASURES : stats.result[key].s # "NaN"

(***************************************************************************)
(* The "Show Outliers" checkbox of the box plot                            *)
(***************************************************************************)
\* The sample in the textarea has a value beyond the outlier bounds of result
SampleHasOutlier(c) ==
  LET numbers == parseInputNumbers(c.input)
  IN \E i \in 1..Len(numbers) :
       BoxIsOutlier(numbers[i], ParseFixed4(c.result.outlierMin),
                    ParseFixed4(c.result.outlierMax))

\* C29: in box-plot mode, in every state after effects have run, the
\* displayed chart contains the outliers dataset if and only if "Show
\* Outliers" is checked and the sample has at least one outlier: toggling the
\* checkbox is reflected in the chart without any other action.
C29_OutliersFollowCheckbox ==
  (stats.chartType = BOXPLOT /\ stats.chartData.kind = BOXPLOT) =>
    (stats.chartData.hasOutlierDataset <=>
       (stats.showOutliers /\ SampleHasOutlier(stats)))

(***************************************************************************)
(* The probabilities of the four modes of the full normal calculator       *)
(***************************************************************************)
\* The values a cumulative distribution function takes at two points
CdfLevels == {Num(0), Rat(1, 4), Rat(1, 2), Num(1)}

\* The number a probability of calculations is, for a CDF that is lo at the
\* point lower and at every point not above it, and hi above it
RECURSIVE ProbabilityValue(_, _, _, _)
ProbabilityValue(p, lower, lo, hi) ==
  CASE p.fn = "jStat.normal.cdf" -> IF FloatLess(lower, p.x) THEN hi ELSE lo
    [] p.fn = "1-" -> RatSub(Num(1), ProbabilityValue(p.a, lower, lo, hi))
    [] OTHER -> RatSub(ProbabilityValue(p.a, lower, lo, hi),
                       ProbabilityValue(p.b, lower, lo, hi))

\* The render of state c in the mode calcType
InMode(c, calcType) == calculations([c EXCEPT !.calcType = calcType])

\* The state c with the two values entered in the other order
Swapped(c) == [c EXCEPT !.value1 = c.value2, !.value2 = c.value1]

\* C30: for any two entered values and a monotone CDF, the "between"
\* probability is CDF(max) - CDF(min) and is the same whichever order the
\* values are entered in, "outside" is exactly 1 - "between", "right" is
\* exactly 1 - "left", and the probability of every mode lies in [0, 1].
C30_ModesAgree ==
  (probe.stage = "calculations" /\ probe.c.value1.num /\ probe.c.value2.num) =>
    LET c == probe.c
        k == probe.calculations
    IN /\ InMode(c, "between").probability =
            [fn |-> "-",
             a |-> NormalMathCdf(FloatMax(k.x1, k.x2), k.mean, k.sd),
             b |-> NormalMathCdf(FloatMin(k.x1, k.x2), k.mean, k.sd)]
       /\ \A calcType \in {"between", "outside"} :
            InMode(Swapped(c), calcType).probability = InMode(c, calcType).probability
       /\ InMode(c, "outside").probability =
            [fn |-> "1-", a |-> InMode(c, "between").probability]
       /\ InMode(c, "right").probability =
            [fn |-> "1-", a |-> InMode(c, "left").probability]
       /\ \A lo, hi \in CdfLevels :
            ~RatLess(hi, lo) =>
              InUnitInterval(ProbabilityValue(k.probability, FloatMin(k.x1, k.x2), lo, hi))

\* C30 witness: the render of "between" with 2.5 entered before 2, the
\* greater value first.
C30_Witness ==
  /\ probe.stage = "calculations"
  /\ probe.c.calcType = "between"
  /\ probe.c.inputType = "x"
  /\ probe.c.value1 = Entered(5, 2)
  /\ probe.c.value2 = Entered(2, 1)
  /\ probe.calculations.probability.a.x = Float(Rat(5, 2), 0)
  /\ probe.calculations.probability.b.x = Float(Num(2), 0)

====
